---------------------------- MODULE Spec2Model ----------------------------
(***************************************************************************)
(* Model of the LLM-response acquisition pipeline of rust-git-cli:         *)
(* the four generation operations (commit message / changelog on the       *)
(* OpenAI-style and the Anthropic-style client), the SSE stream decoder,   *)
(* the markdown-fence stripper and the brace-depth JSON extractor, and of  *)
(* the CommitMessage they produce: its deserialization and its rendering.  *)
(* Spec follows a whole run; SpecDebugPair two runs that differ in the     *)
(* debug flag; SpecStream, SpecExtract and SpecMessage apply the stream    *)
(* decoder, the schema extraction and the commit message's functions to    *)
(* every input of a bounded set.                                           *)
(*                                                                         *)
(* Text is a sequence of characters.  The characters that matter to the    *)
(* code are kept as they are ("{", "}", "j", "s", "o", "n", blanks);         *)
(* the members of a JSON object are abbreviated to one character each:     *)
(*   "f", "g"  a complete set of the required CommitMessage /              *)
(*             ChangelogSummary members (two different values)             *)
(*   "k"       an unknown member whose value is the object that follows    *)
(*   "c"       a character of commentary, never part of valid JSON         *)
(***************************************************************************)
EXTENDS Integers, Sequences, FiniteSets, TLC

VARIABLES run, twin, call

vars == <<run, twin, call>>

----------------------------------------------------------------------------
(* Text helpers: the std::str operations the clients use.                  *)

Whitespace == {" ", "\n"}

(* The backtick character (written "^": the backtick cannot appear in a    *)
(* TLA+ string).                                                           *)
Backtick == "^"

Fence == <<Backtick, Backtick, Backtick>>

FenceJson == Fence \o <<"j", "s", "o", "n">>

StartsWith(t, p) == Len(t) >= Len(p) /\ SubSeq(t, 1, Len(p)) = p

EndsWith(t, p) == Len(t) >= Len(p) /\ SubSeq(t, Len(t) - Len(p) + 1, Len(t)) = p

RECURSIVE TrimStart(_)
TrimStart(t) ==
    IF t # <<>> /\ Head(t) \in Whitespace THEN TrimStart(Tail(t)) ELSE t

RECURSIVE TrimEnd(_)
TrimEnd(t) ==
    IF t # <<>> /\ t[Len(t)] \in Whitespace
    THEN TrimEnd(SubSeq(t, 1, Len(t) - 1))
    ELSE t

Trim(t) == TrimEnd(TrimStart(t))

(* Option<T>: None is the empty tuple, Some(x) the tuple holding x.        *)
None == <<>>

Some(x) == <<x>>

IsSome(o) == o # None

Unwrap(o) == o[1]

(* str::strip_prefix / strip_suffix: None when the affix is not there.     *)
StripPrefix(t, p) ==
    IF StartsWith(t, p) THEN Some(SubSeq(t, Len(p) + 1, Len(t))) ELSE None

StripSuffix(t, p) ==
    IF EndsWith(t, p) THEN Some(SubSeq(t, 1, Len(t) - Len(p))) ELSE None

(* Variant: when the closing fence is not there any more once the opening  *)
(* one is taken off, what is left of the text is used.                     *)
StripBoth_keeping_the_rest(content, open) ==
    LET a == StripPrefix(content, open)
        b == IF a = None THEN None ELSE StripSuffix(Unwrap(a), Fence)
    IN  IF a = None THEN content
        ELSE IF b = None THEN Trim(Unwrap(a)) ELSE Trim(Unwrap(b))

(* content.strip_prefix(open).and_then(|s| s.strip_suffix("```"))          *)
(*        .map(|s| s.trim()).unwrap_or(&content)                           *)
StripBoth(content, open) ==
    LET a == StripPrefix(content, open)
        b == IF a = None THEN None ELSE StripSuffix(Unwrap(a), Fence)
    IN  IF b = None THEN content ELSE Trim(Unwrap(b))

StripFence(content) ==
    IF StartsWith(content, FenceJson) /\ EndsWith(content, Fence)
    THEN StripBoth(content, FenceJson)
    ELSE IF StartsWith(content, Fence) /\ EndsWith(content, Fence)
         THEN StripBoth(content, Fence)
         ELSE content

----------------------------------------------------------------------------
(* Byte offsets: char_indices() yields byte offsets and the slice          *)
(* clean_content[start..end] is taken by byte offsets.                     *)

(* "W" stands for a character whose UTF-8 encoding takes two bytes, "Z"    *)
(* for one that takes three.                                               *)
WideChars == {"W"}

TripleChars == {"Z"}

LenUtf8(ch) == IF ch \in WideChars THEN 2 ELSE IF ch \in TripleChars THEN 3 ELSE 1

RECURSIVE ByteLen(_)
ByteLen(t) == IF t = <<>> THEN 0 ELSE LenUtf8(Head(t)) + ByteLen(Tail(t))

(* byte offset of the i-th character (1-based) of t                        *)
ByteIdx(t, i) == ByteLen(SubSeq(t, 1, i - 1))

IsCharBoundary(t, b) == \E i \in 1..(Len(t) + 1) : ByteIdx(t, i) = b

(* &t[start..end] panics unless both ends are char boundaries in range.    *)
SliceInRange(t, start, end) ==
    start <= end /\ IsCharBoundary(t, start) /\ IsCharBoundary(t, end)

ByteSlice(t, start, end) ==
    LET i == CHOOSE i \in 1..(Len(t) + 1) : ByteIdx(t, i) = start
        j == CHOOSE j \in 1..(Len(t) + 1) : ByteIdx(t, j) = end
    IN  SubSeq(t, i, j - 1)

----------------------------------------------------------------------------
(* The brace-depth scan.  A scan state is [depth, start_idx, end_idx];     *)
(* ScanFrom runs the for loop from character i on, `break` ends it.        *)

ScanInit == [depth |-> 0, start_idx |-> None, end_idx |-> None]

OpenBrace(s, idx) ==
    [s EXCEPT !.start_idx = IF s.depth = 0 /\ s.start_idx = None THEN Some(idx) ELSE @,
              !.depth = @ + 1]

(* OpenAI-style clients: the decrement is guarded by depth > 0.            *)
CloseBraceClamped(s, idx, ch) ==
    LET d == IF s.depth > 0 THEN s.depth - 1 ELSE s.depth
    IN  [s EXCEPT !.depth = d,
                  !.end_idx = IF d = 0 /\ s.start_idx # None
                              THEN Some(idx + LenUtf8(ch)) ELSE @]

(* Anthropic-style clients: the decrement is unconditional.                *)
CloseBraceUnclamped(s, idx, ch) ==
    LET d == s.depth - 1
    IN  [s EXCEPT !.depth = d,
                  !.end_idx = IF d = 0 /\ s.start_idx # None
                              THEN Some(idx + LenUtf8(ch)) ELSE @]

ScanStep(s, t, i, clamped) ==
    LET ch == t[i]
        idx == ByteIdx(t, i)
    IN  IF ch = "{" THEN OpenBrace(s, idx)
        ELSE IF ch = "}"
             THEN IF clamped THEN CloseBraceClamped(s, idx, ch)
                             ELSE CloseBraceUnclamped(s, idx, ch)
             ELSE s

(* Variant: the loop does not break once the end is found.                 *)
RECURSIVE ScanFrom_without_break(_, _, _, _)
ScanFrom_without_break(s, t, i, clamped) ==
    IF i > Len(t)
    THEN s
    ELSE ScanFrom_without_break(ScanStep(s, t, i, clamped), t, i + 1, clamped)

RECURSIVE ScanFrom(_, _, _, _)
ScanFrom(s, t, i, clamped) ==
    IF i > Len(t) \/ s.end_idx # None
    THEN s
    ELSE ScanFrom(ScanStep(s, t, i, clamped), t, i + 1, clamped)

BraceScan(t, clamped) == ScanFrom(ScanInit, t, 1, clamped)

(* Variant: an object that never closes is taken to run to the end of the  *)
(* text.                                                                   *)
ExtractSpan_open_ended(t, clamped) ==
    LET s == BraceScan(t, clamped)
        end == IF s.end_idx # None THEN Unwrap(s.end_idx) ELSE ByteLen(t)
    IN  IF s.start_idx # None
        THEN IF SliceInRange(t, Unwrap(s.start_idx), end)
             THEN [panic |-> FALSE, span |-> Some(ByteSlice(t, Unwrap(s.start_idx), end))]
             ELSE [panic |-> TRUE, span |-> None]
        ELSE [panic |-> FALSE, span |-> None]

(* if let (Some(start), Some(end)) = (start_idx, end_idx)                  *)
(*     { &clean_content[start..end] } else { no object found }             *)
(* [panic, span]: span is Some(json_str) or None.                          *)
ExtractSpan(t, clamped) ==
    LET s == BraceScan(t, clamped)
    IN  IF s.start_idx # None /\ s.end_idx # None
        THEN IF SliceInRange(t, Unwrap(s.start_idx), Unwrap(s.end_idx))
             THEN [panic |-> FALSE,
                   span |-> Some(ByteSlice(t, Unwrap(s.start_idx), Unwrap(s.end_idx)))]
             ELSE [panic |-> TRUE, span |-> None]
        ELSE [panic |-> FALSE, span |-> None]

ExtractOpenAI(t) == ExtractSpan(t, TRUE)

ExtractAnthropic(t) == ExtractSpan(t, FALSE)

----------------------------------------------------------------------------
(* serde_json::from_str::<T>(text) for T = CommitMessage, ChangelogSummary *)
(* on the abbreviated JSON of this model: an object is "{" members "}",    *)
(* a member is "f" or "g" (the required members, two different values) or  *)
(* "k" followed by its value (an unknown member, which serde ignores; "k"  *)
(* is the key and its colon); the comma between two members is part of the *)
(* second; blanks may stand between tokens and around the document.  An    *)
(* error carries its kind and the column of the last character read.  The  *)
(* value is deserialized first (T::deserialize), then the rest of the text *)
(* is checked to be blank (Deserializer::end).                             *)

RECURSIVE SkipWs(_, _)
SkipWs(t, i) == IF i <= Len(t) /\ t[i] \in Whitespace THEN SkipWs(t, i + 1) ELSE i

JsonErr(kind, col) == [ok |-> FALSE, kind |-> kind, col |-> col]

(* Parses the members of the object opened before i, up to its "}".        *)
(* top: the members seen so far at this level.  strict: the object is the  *)
(* struct itself, whose visitor rejects a field met twice at its second    *)
(* key; the value of an unknown member is read by IgnoredAny, which         *)
(* accepts any members.  A member token where a value is expected starts   *)
(* with a string, which is the value, and goes on with a colon.  The       *)
(* letter "n" where a value is expected starts the literal null: the text  *)
(* ends there, or the next character is not the one the literal goes on    *)
(* with (no text of this alphabet holds a "u").                            *)
RECURSIVE ParseMembers(_, _, _, _)
ParseMembers(t, i, top, strict) ==
    LET j == SkipWs(t, i)
        v == SkipWs(t, j + 1)
    IN  IF j > Len(t) THEN JsonErr("EOF while parsing an object", Len(t))
        ELSE IF t[j] = "}" THEN [ok |-> TRUE, next |-> j + 1, top |-> top]
        ELSE IF t[j] \in {"f", "g"}
             THEN IF strict /\ \E m \in 1..Len(top) : top[m] \in {"f", "g"}
                  THEN JsonErr("duplicate field", j)
                  ELSE ParseMembers(t, j + 1, Append(top, t[j]), strict)
        ELSE IF t[j] = "k"
             THEN IF v > Len(t) THEN JsonErr("EOF while parsing a value", Len(t))
                  ELSE IF t[v] = "{"
                       THEN LET inner == ParseMembers(t, v + 1, <<>>, FALSE)
                            IN  IF inner.ok
                                THEN ParseMembers(t, inner.next, Append(top, "k"), strict)
                                ELSE inner
                  ELSE IF t[v] \in {"f", "g", "k"} THEN JsonErr("expected ^,^ or ^}^", v)
                  ELSE IF t[v] = "n"
                       THEN IF v = Len(t) THEN JsonErr("EOF while parsing a value", v)
                            ELSE JsonErr("expected ident", v + 1)
                  ELSE JsonErr("expected value", v)
        ELSE IF top = <<>> THEN JsonErr("key must be a string", j)
        ELSE JsonErr("expected ^,^ or ^}^", j)

SchemaValue(member) == [commit_type |-> IF member = "f" THEN "feat" ELSE "fix"]

FromStr(text) ==
    LET i == SkipWs(text, 1)
    IN  IF i > Len(text) THEN JsonErr("EOF while parsing a value", Len(text))
        ELSE IF text[i] \in {"f", "g", "k"} THEN JsonErr("invalid type", i)
        ELSE IF text[i] = "n"
             THEN IF i = Len(text) THEN JsonErr("EOF while parsing a value", i)
                  ELSE JsonErr("expected ident", i + 1)
        ELSE IF text[i] # "{" THEN JsonErr("expected value", i)
        ELSE LET obj == ParseMembers(text, i + 1, <<>>, TRUE)
                 known == SelectSeq(obj.top, LAMBDA m : m \in {"f", "g"})
             IN  IF ~obj.ok THEN obj
                 ELSE IF known = <<>> THEN JsonErr("missing field", obj.next - 1)
                 ELSE IF SkipWs(text, obj.next) <= Len(text)
                      THEN JsonErr("trailing characters", SkipWs(text, obj.next))
                 ELSE [ok |-> TRUE, value |-> SchemaValue(known[1])]

----------------------------------------------------------------------------
(* The SSE stream decoder.  A response body is seen line by line; a line   *)
(* is [kind, choices]:                                                     *)
(*   "other"    the trimmed line does not start with the data sentinel     *)
(*   "done"     the data sentinel followed by the [DONE] marker            *)
(*   "garbage"  the data sentinel followed by text that is no StreamChunk  *)
(*   "chunk"    the data sentinel followed by a StreamChunk; choices holds *)
(*              each choice's delta.content, an Option<String>             *)

Line(kind, choices) == [kind |-> kind, choices |-> choices]

RECURSIVE ChunkContent(_)
ChunkContent(choices) ==
    IF choices = <<>> THEN <<>>
    ELSE (IF Head(choices) = None THEN <<>> ELSE Unwrap(Head(choices)))
         \o ChunkContent(Tail(choices))

(* Variant: the fragments of a line are put in front of the buffer.        *)
RECURSIVE StreamLoop_prepending(_, _)
StreamLoop_prepending(lines, acc) ==
    IF lines = <<>> THEN acc
    ELSE LET line == Head(lines)
         IN  IF line.kind = "other" THEN StreamLoop_prepending(Tail(lines), acc)
             ELSE IF line.kind = "chunk"
                  THEN StreamLoop_prepending(Tail(lines),
                                  [content |-> ChunkContent(line.choices) \o acc.content,
                                   is_streaming |-> TRUE])
                  ELSE StreamLoop_prepending(Tail(lines), [acc EXCEPT !.is_streaming = TRUE])

(* The for loop over response_text.lines(): acc is [content, is_streaming] *)
RECURSIVE StreamLoop(_, _)
StreamLoop(lines, acc) ==
    IF lines = <<>> THEN acc
    ELSE LET line == Head(lines)
         IN  IF line.kind = "other" THEN StreamLoop(Tail(lines), acc)
             ELSE IF line.kind = "chunk"
                  THEN StreamLoop(Tail(lines),
                                  [content |-> acc.content \o ChunkContent(line.choices),
                                   is_streaming |-> TRUE])
                  ELSE StreamLoop(Tail(lines), [acc EXCEPT !.is_streaming = TRUE])

(* Variant: a stream without content is an empty success.                  *)
parse_streaming_response_accepting_empty(lines) ==
    LET acc == StreamLoop(lines, [content |-> <<>>, is_streaming |-> FALSE])
    IN  IF acc.is_streaming THEN Some(acc.content) ELSE None

parse_streaming_response(lines) ==
    LET acc == StreamLoop(lines, [content |-> <<>>, is_streaming |-> FALSE])
    IN  IF acc.is_streaming /\ acc.content # <<>> THEN Some(acc.content) ELSE None

(* The text of a line, as response_text.lines() yields it, is a sequence   *)
(* of tokens: " " (a blank), "data:" (the sentinel without its blank),     *)
(* "[DONE]" (the end marker), "x" (text that is no JSON) and the chunk     *)
(* tokens, each the JSON text of one StreamChunk.                          *)
Sentinel == <<"data:", " ">>

DoneMarker == <<"[DONE]">>

(* The chunk tokens and, for each, the delta.content of its choices.       *)
ChunkTokens ==
    {"chunk[]", "chunk[{}]", "chunk['']", "chunk[a]", "chunk[b]", "chunk[c,d]", "chunk[{},e]"}

ChunkChoices(token) ==
    CASE token = "chunk[]" -> <<>>
      [] token = "chunk[{}]" -> <<None>>
      [] token = "chunk['']" -> <<Some(<<>>)>>
      [] token = "chunk[a]" -> <<Some(<<"a">>)>>
      [] token = "chunk[b]" -> <<Some(<<"b">>)>>
      [] token = "chunk[c,d]" -> <<Some(<<"c">>), Some(<<"d">>)>>
      [] token = "chunk[{},e]" -> <<None, Some(<<"e">>)>>

(* serde_json::from_str::<StreamChunk>(data): one chunk, blanks around it  *)
(* allowed, nothing else.                                                  *)
ParseStreamChunk(data) ==
    LET i == SkipWs(data, 1)
    IN  IF i <= Len(data) /\ data[i] \in ChunkTokens /\ SkipWs(data, i + 1) > Len(data)
        THEN [ok |-> TRUE, value |-> ChunkChoices(data[i])]
        ELSE [ok |-> FALSE]

(* What the loop body makes of one line: trim, the sentinel test, the      *)
(* [DONE] test and the chunk parse.                                        *)
ClassifyLine(raw) ==
    LET line == Trim(raw)
        data == Unwrap(StripPrefix(line, Sentinel))
        chunk == ParseStreamChunk(data)
    IN  IF ~StartsWith(line, Sentinel) THEN Line("other", <<>>)
        ELSE IF data = DoneMarker THEN Line("done", <<>>)
        ELSE IF chunk.ok THEN Line("chunk", chunk.value)
        ELSE Line("garbage", <<>>)

ClassifyLines(raws) == [i \in 1..Len(raws) |-> ClassifyLine(raws[i])]

----------------------------------------------------------------------------
(* Response bodies.  A body is one of                                      *)
(*   [form |-> "sse", lines]        text with at least one data line       *)
(*   [form |-> "json", choices]     an OpenAIResponse envelope; a choice   *)
(*                                  is [content, finish_reason]            *)
(*   [form |-> "blocks", content]   an AnthropicResponse envelope; content *)
(*                                  holds the text of each content block   *)
(*   [form |-> "text", raw]         text that is no JSON document, given   *)
(*                                  as the token text of each of its lines *)
(*   [form |-> "garbage"]           anything else                          *)
(* A text with a data line is never a JSON document, and a JSON document   *)
(* has no line that starts with the data sentinel.                         *)

BodyLines(body) ==
    IF body.form = "sse" THEN body.lines
    ELSE IF body.form = "text" THEN ClassifyLines(body.raw)
    ELSE <<Line("other", <<>>)>>

Error(parts, source) == [parts |-> parts, source |-> source]

(* What a function returns: Ok(value) or Err(error).                       *)
Ok(v) == [ok |-> TRUE, value |-> v]

Err(parts, source) == [ok |-> FALSE, error |-> Error(parts, source)]

(* serde_json::from_str::<OpenAIResponse>, choices.first(),                *)
(* message.content.clone(): the (content, finish_reason) pair of the       *)
(* non-streaming branch.                                                   *)
ParseOpenAIEnvelope(body) ==
    IF body.form # "json"
    THEN Err(<<"Failed to parse OpenAI response">>, Some(Error(<<"serde_json::Error">>, None)))
    ELSE IF body.choices = <<>> THEN Err(<<"No response from OpenAI">>, None)
    ELSE IF body.choices[1].content = None THEN Err(<<"Response content is null">>, None)
    ELSE Ok([content |-> Unwrap(body.choices[1].content),
             finish_reason |-> body.choices[1].finish_reason])

(* The OpenAI-style decoding of a body: a stream is complete by            *)
(* assumption, everything else is an envelope.                             *)
DecodeOpenAI(body) ==
    LET streamed == parse_streaming_response(BodyLines(body))
    IN  IF streamed # None
        THEN Ok([content |-> Unwrap(streamed), finish_reason |-> Some("stop")])
        ELSE ParseOpenAIEnvelope(body)

(* serde_json::from_str::<AnthropicResponse> and content.first().text      *)
DecodeAnthropic(body) ==
    IF body.form # "blocks"
    THEN Err(<<"Failed to parse Anthropic response">>,
             Some(Error(<<"serde_json::Error">>, None)))
    ELSE IF body.content = <<>> THEN Err(<<"No response from Anthropic">>, None)
    ELSE Ok([content |-> body.content[1], finish_reason |-> None])

(* The arms of match finish_reason.as_deref(), as the completion signal.   *)
CompletionSignal(finish_reason) ==
    IF finish_reason = Some("length") THEN "Length"
    ELSE IF finish_reason = Some("content_filter") THEN "ContentFiltered"
    ELSE IF finish_reason \in {Some("stop"), Some("stop_sequence")} THEN "Stop"
    ELSE IF finish_reason = None THEN "Absent"
    ELSE "Unknown"

----------------------------------------------------------------------------
(* HTTP status handling.                                                   *)

is_success(status) == 200 <= status /\ status <= 299

ServiceName(provider) == IF provider = "openai" THEN "OpenAI" ELSE "Anthropic"

safe_error(provider, status) ==
    IF status = 401 THEN "Authentication failed. Please check your API key."
    ELSE IF status = 403 THEN "Access forbidden. Please check your API permissions."
    ELSE IF status = 429 THEN "Rate limit exceeded. Please try again later."
    ELSE IF 500 <= status /\ status <= 599
         THEN IF provider = "openai"
              THEN "OpenAI service error. Please try again later."
              ELSE "Anthropic service error. Please try again later."
    ELSE "Request failed. Please check your configuration."

(* The status as "{}" prints it (Display of http::StatusCode): the number, *)
(* a blank and the canonical reason phrase of the code, or                 *)
(* "<unknown status code>" for a code that has none.                       *)
StatusCodeDisplay(status) ==
    LET canonical_reason ==
            (100 :> "Continue" @@ 101 :> "Switching Protocols" @@ 102 :> "Processing"
             @@ 103 :> "Early Hints" @@ 425 :> "Too Early"
             @@ 200 :> "OK" @@ 201 :> "Created" @@ 202 :> "Accepted"
             @@ 203 :> "Non Authoritative Information" @@ 204 :> "No Content"
             @@ 205 :> "Reset Content" @@ 206 :> "Partial Content"
             @@ 207 :> "Multi-Status" @@ 208 :> "Already Reported" @@ 226 :> "IM Used"
             @@ 300 :> "Multiple Choices" @@ 301 :> "Moved Permanently" @@ 302 :> "Found"
             @@ 303 :> "See Other" @@ 304 :> "Not Modified" @@ 305 :> "Use Proxy"
             @@ 307 :> "Temporary Redirect" @@ 308 :> "Permanent Redirect"
             @@ 400 :> "Bad Request" @@ 401 :> "Unauthorized" @@ 402 :> "Payment Required"
             @@ 403 :> "Forbidden" @@ 404 :> "Not Found" @@ 405 :> "Method Not Allowed"
             @@ 406 :> "Not Acceptable" @@ 407 :> "Proxy Authentication Required"
             @@ 408 :> "Request Timeout" @@ 409 :> "Conflict" @@ 410 :> "Gone"
             @@ 411 :> "Length Required" @@ 412 :> "Precondition Failed"
             @@ 413 :> "Payload Too Large" @@ 414 :> "URI Too Long"
             @@ 415 :> "Unsupported Media Type" @@ 416 :> "Range Not Satisfiable"
             @@ 417 :> "Expectation Failed" @@ 418 :> "I'm a teapot"
             @@ 421 :> "Misdirected Request" @@ 422 :> "Unprocessable Entity"
             @@ 423 :> "Locked" @@ 424 :> "Failed Dependency" @@ 426 :> "Upgrade Required"
             @@ 428 :> "Precondition Required" @@ 429 :> "Too Many Requests"
             @@ 431 :> "Request Header Fields Too Large"
             @@ 451 :> "Unavailable For Legal Reasons"
             @@ 500 :> "Internal Server Error" @@ 501 :> "Not Implemented"
             @@ 502 :> "Bad Gateway" @@ 503 :> "Service Unavailable"
             @@ 504 :> "Gateway Timeout" @@ 505 :> "HTTP Version Not Supported"
             @@ 506 :> "Variant Also Negotiates" @@ 507 :> "Insufficient Storage"
             @@ 508 :> "Loop Detected" @@ 510 :> "Not Extended"
             @@ 511 :> "Network Authentication Required")
    IN  <<ToString(status), " ",
          IF status \in DOMAIN canonical_reason THEN canonical_reason[status]
          ELSE "<unknown status code>">>

(* Variant: the provider's error text is appended to the message.          *)
HttpError_echoes_body(provider, status, error_text) ==
    Error(<<safe_error(provider, status), " (Status: ">> \o StatusCodeDisplay(status)
          \o <<")", ": ", error_text.text>>, None)

(* anyhow::bail!("{} (Status: {})", safe_error, status)                    *)
HttpError(provider, status, error_text) ==
    Error(<<safe_error(provider, status), " (Status: ">> \o StatusCodeDisplay(status)
          \o <<")">>, None)

----------------------------------------------------------------------------
(* A run of one generation operation.  pc is the orchestrator's position:  *)
(* Building, Sending, Interpreting, ExtractingSchema, Success, Fatal       *)
(* (and Panicked, should a slice ever be out of range).  transport,        *)
(* status, response_text, content, finish_reason and signal are the locals of the  *)
(* current attempt (transport tells how its HTTP exchange went), dropped   *)
(* when the loop continues; sends and signals                              *)
(* record every request sent and every completion signal read so far, and  *)
(* diag what was printed under the debug flag.                             *)

max_attempts == 4

TokenCeiling == 4000

(* u32 values.  The model checker's integers are 32-bit signed, so a u32   *)
(* is kept as two 16-bit limbs [hi, lo], its value being hi * 2^16 + lo.   *)
Limb == 65536

U32(n) == [hi |-> n \div Limb, lo |-> n % Limb]

U32Max == [hi |-> Limb - 1, lo |-> Limb - 1]

U32Le(a, b) == a.hi < b.hi \/ (a.hi = b.hi /\ a.lo <= b.lo)

(* Variant: the product wraps around modulo 2^32 (u32::wrapping_mul).      *)
saturating_mul_wrapping(a, b) ==
    LET lo == a.lo * b
        hi == a.hi * b + (lo \div Limb)
    IN  [hi |-> hi % Limb, lo |-> lo % Limb]

(* u32::saturating_mul by a small factor b                                 *)
saturating_mul(a, b) ==
    LET lo == a.lo * b
        hi == a.hi * b + (lo \div Limb)
    IN  IF hi >= Limb THEN U32Max ELSE [hi |-> hi, lo |-> lo % Limb]

(* Ord::min                                                                *)
Min(a, b) == IF U32Le(a, b) THEN a ELSE b

NewRun(provider, kind, debug, initial_max_tokens) ==
    [provider |-> provider, kind |-> kind, debug |-> debug,
     initial_max_tokens |-> initial_max_tokens,
     pc |-> "Building",
     attempt |-> 0,
     max_tokens |-> initial_max_tokens,
     sends |-> <<>>,
     transport |-> None,
     status |-> None,
     response_text |-> None,
     content |-> None,
     finish_reason |-> None,
     signal |-> "NotYet",
     signals |-> <<>>,
     result |-> None,
     error |-> None,
     diag |-> <<>>]

Fatal(r, error) == [r EXCEPT !.pc = "Fatal", !.error = Some(error)]

Success(r, value) == [r EXCEPT !.pc = "Success", !.result = Some(value)]

(* eprintln!/println! under `if debug`.                                    *)
Debug(r, tag, data) ==
    IF r.debug THEN [r EXCEPT !.diag = Append(@, <<tag, data>>)] ELSE r

Msg(role, content) == [role |-> role, content |-> content]

(* Variant: the corrective instruction is pushed after the user prompt.    *)
OpenAICommitMessages_corrective_last(attempt) ==
    <<Msg("system", "commit-system-message"), Msg("user", "prompt")>>
    \o (IF attempt > 0 THEN <<Msg("system", "previous-answer-truncated")>> ELSE <<>>)

(* The messages of the request this attempt sends.  The prompt is built    *)
(* once, before the loop, and is the same text on every attempt.           *)
OpenAICommitMessages(attempt) ==
    <<Msg("system", "commit-system-message")>>
    \o (IF attempt > 0 THEN <<Msg("system", "previous-answer-truncated")>> ELSE <<>>)
    \o <<Msg("user", "prompt")>>

Messages(r) ==
    IF r.provider = "openai"
    THEN IF r.kind = "commit"
         THEN OpenAICommitMessages(r.attempt)
         ELSE <<Msg("system", "changelog-system-message"), Msg("user", "prompt")>>
    ELSE <<Msg("user", "prompt-respond-with-only-json")>>

(* The max_tokens field of the request.                                    *)
RequestMaxTokens(r) ==
    IF r.provider = "openai" /\ r.kind = "commit"
    THEN r.max_tokens
    ELSE r.initial_max_tokens

ReqwestError == Error(<<"reqwest::Error">>, None)

(* .send().await fails: no response at all.                                *)
OnSendFailed(sent) ==
    Fatal([sent EXCEPT !.transport = Some("send_failed")],
          Error(<<"Failed to send request to ", ServiceName(sent.provider)>>,
                Some(ReqwestError)))

(* Variant: a server error is retried while attempts remain.               *)
OnHttpFailure_retry_5xx(got, resp) ==
    IF 500 <= resp.status /\ resp.status <= 599 /\ got.attempt + 1 < max_attempts
    THEN [got EXCEPT !.attempt = @ + 1, !.pc = "Sending"]
    ELSE Fatal(Debug(got, "Full error response", resp.body),
               HttpError(got.provider, resp.status, resp.body))

(* !response.status().is_success(): the body is read for the debug print   *)
(* only; failing to read it returns the transport error.                   *)
OnHttpFailure(got, resp) ==
    IF resp.transport = "read_failed"
    THEN Fatal(got, ReqwestError)
    ELSE Fatal(Debug(got, "Full error response", resp.body),
               HttpError(got.provider, resp.status, resp.body))

(* response.text().await on a 2xx response.                                *)
OnHttpSuccess(got, resp) ==
    IF resp.transport = "read_failed"
    THEN Fatal(got, Error(<<"Failed to read response text">>, Some(ReqwestError)))
    ELSE Debug([got EXCEPT !.pc = "Interpreting", !.response_text = Some(resp.body)],
               "Raw HTTP Response", resp.body)

(* One HTTP exchange.  The client suspends twice in it: at .send().await,  *)
(* with the request out and nothing received, and at response.text()       *)
(* .await, with the status line read and the body not.  resp is what the   *)
(* network does: [transport, status, body], transport one of "ok",         *)
(* "send_failed" (no response at all) and "read_failed" (the body cannot   *)
(* be read).                                                               *)

(* Sending: the request is built and goes out.                             *)
SendStep(r) ==
    [r EXCEPT !.sends = Append(@, [max_tokens |-> RequestMaxTokens(r),
                                   messages |-> Messages(r)]),
              !.pc = "AwaitingResponse"]

(* .send().await returns: an error, or the response with its status.       *)
ReceiveStep(r, resp) ==
    IF resp.transport = "send_failed" THEN OnSendFailed(r)
    ELSE [r EXCEPT !.status = Some(resp.status), !.pc = "ReadingBody"]

(* The status is tested and response.text().await returns.                 *)
ReadStep(r, resp) ==
    LET got == [r EXCEPT !.transport = Some(resp.transport)]
    IN  IF ~is_success(resp.status) THEN OnHttpFailure(got, resp)
        ELSE OnHttpSuccess(got, resp)

(* How much text an attempt produced: none, only blanks, or more.          *)
TextClass(content) ==
    IF content = <<>> THEN "empty"
    ELSE IF Trim(content) = <<>> THEN "blank"
    ELSE "text"

(* What the decoded pair leaves in the run, with the debug prints.         *)
Decoded(r, d, finish_reason, signal) ==
    LET body == Unwrap(r.response_text)
        r1 == IF r.provider = "openai" /\ parse_streaming_response(BodyLines(body)) # None
              THEN Debug(r, "Detected SSE streaming response", <<>>)
              ELSE r
    IN  IF ~d.ok THEN Fatal(r1, d.error)
        ELSE Debug([r1 EXCEPT !.content = Some(d.value.content),
                              !.finish_reason = finish_reason,
                              !.signal = signal,
                              !.signals = Append(@, [signal |-> signal,
                                                     finish_reason |-> finish_reason,
                                                     text |-> TextClass(d.value.content)])],
                   "AI Message Content", d.value.content)

TruncatedRepeatedlyError ==
    Error(<<"AI response was truncated repeatedly, resulting in empty content. Try reducing the diff size or switching models.">>, None)

TruncatedJsonError ==
    Error(<<"AI response was truncated before completing the JSON (finish_reason=length). Try reducing the diff size or switching models.">>, None)

ContentFilterError ==
    Error(<<"The response was blocked by the provider's content filter.">>, None)

UnexpectedFinishReasonError(other) ==
    Error(<<"Unexpected finish_reason '", other, "' from AI response.">>, None)

AfterLoopError ==
    Error(<<"Failed to obtain a valid commit message from OpenAI after multiple attempts">>, None)

(* `continue`: the attempt's locals are dropped and the for loop takes its *)
(* next index, or ends when there is none.                                 *)
Continue(r) ==
    LET next == [r EXCEPT !.attempt = @ + 1,
                          !.transport = None,
                          !.status = None,
                          !.response_text = None,
                          !.content = None,
                          !.finish_reason = None,
                          !.signal = "NotYet"]
    IN  IF next.attempt < max_attempts
        THEN [next EXCEPT !.pc = "Sending"]
        ELSE Fatal(next, AfterLoopError)

(* max_tokens = (max_tokens.saturating_mul(2)).min(4000)                   *)
GrowBudget(max_tokens) == Min(saturating_mul(max_tokens, 2), U32(TokenCeiling))

(* Variant: blank text is fatal on any attempt, not only on the last.      *)
OnLength_bail_on_any_attempt(r) ==
    IF Trim(Unwrap(r.content)) = <<>>
    THEN Fatal(r, TruncatedRepeatedlyError)
    ELSE IF r.attempt + 1 < max_attempts
         THEN LET grown == GrowBudget(r.max_tokens)
              IN  Continue(Debug([r EXCEPT !.max_tokens = grown],
                                 "finish_reason=length, retrying with max_tokens", grown))
         ELSE Fatal(r, TruncatedJsonError)

(* Variant: `continue` sits inside the debug block, so that only a debug   *)
(* run retries.                                                            *)
OnLength_continue_inside_debug_block(r) ==
    IF Trim(Unwrap(r.content)) = <<>> /\ r.attempt + 1 = max_attempts
    THEN Fatal(r, TruncatedRepeatedlyError)
    ELSE IF r.attempt + 1 < max_attempts
         THEN LET grown == GrowBudget(r.max_tokens)
              IN  IF r.debug
                  THEN Continue(Debug([r EXCEPT !.max_tokens = grown],
                                      "finish_reason=length, retrying with max_tokens", grown))
                  ELSE [r EXCEPT !.max_tokens = grown, !.pc = "ExtractingSchema"]
         ELSE Fatal(r, TruncatedJsonError)

(* Variant: the retry guard is off by one, attempt + 1 <= max_attempts.    *)
OnLength_retry_on_last(r) ==
    IF Trim(Unwrap(r.content)) = <<>> /\ r.attempt + 1 = max_attempts
    THEN Fatal(r, TruncatedRepeatedlyError)
    ELSE IF r.attempt + 1 <= max_attempts
         THEN LET grown == GrowBudget(r.max_tokens)
              IN  Continue(Debug([r EXCEPT !.max_tokens = grown],
                                 "finish_reason=length, retrying with max_tokens", grown))
         ELSE Fatal(r, TruncatedJsonError)

(* Variant: blank text on the last attempt leaves the match without a      *)
(* verdict.                                                                *)
OnLength_last_blank_falls_through(r) ==
    IF r.attempt + 1 < max_attempts \/ Trim(Unwrap(r.content)) = <<>>
    THEN LET grown == GrowBudget(r.max_tokens)
         IN  Continue(Debug([r EXCEPT !.max_tokens = grown],
                            "finish_reason=length, retrying with max_tokens", grown))
    ELSE Fatal(r, TruncatedJsonError)

(* Some("length") arm.                                                     *)
OnLength(r) ==
    IF Trim(Unwrap(r.content)) = <<>> /\ r.attempt + 1 = max_attempts
    THEN Fatal(r, TruncatedRepeatedlyError)
    ELSE IF r.attempt + 1 < max_attempts
         THEN LET grown == GrowBudget(r.max_tokens)
              IN  Continue(Debug([r EXCEPT !.max_tokens = grown],
                                 "finish_reason=length, retrying with max_tokens", grown))
         ELSE Fatal(r, TruncatedJsonError)

(* Variant: a filtered answer is handled like a truncated one.             *)
OnContentFilter_retried(r) == OnLength(r)

(* Some("content_filter") arm.                                             *)
OnContentFilter(r) == Fatal(r, ContentFilterError)

(* Variant: a complete but blank answer is asked for again.                *)
OnStop_retry_when_blank(r) ==
    IF Trim(Unwrap(r.content)) = <<>> /\ r.attempt + 1 < max_attempts
    THEN Continue(r)
    ELSE [r EXCEPT !.pc = "ExtractingSchema"]

(* Some("stop") | Some("stop_sequence") | None arm: fall through to the    *)
(* schema extraction.                                                      *)
OnStop(r) == [r EXCEPT !.pc = "ExtractingSchema"]

(* Variant: the error names no reason.                                     *)
OnOther_reason_not_surfaced(r) == Fatal(r, UnexpectedFinishReasonError("unknown"))

(* Some(other) arm.                                                        *)
OnOther(r) == Fatal(r, UnexpectedFinishReasonError(Unwrap(r.finish_reason)))

(* Interpreting on the OpenAI-style commit path: decode, then the match    *)
(* on finish_reason.                                                       *)
InterpretOpenAICommit(r) ==
    LET d == DecodeOpenAI(Unwrap(r.response_text))
        r1 == Decoded(r, d, d.value.finish_reason, CompletionSignal(d.value.finish_reason))
    IN  IF ~d.ok THEN r1
        ELSE IF r1.signal = "Length" THEN OnLength(r1)
        ELSE IF r1.signal = "ContentFiltered" THEN OnContentFilter(r1)
        ELSE IF r1.signal \in {"Stop", "Absent"} THEN OnStop(r1)
        ELSE OnOther(r1)

(* Where the client reads no completion reason the content goes straight   *)
(* to schema extraction.                                                   *)
InterpretUnread(r, d) ==
    LET r1 == Decoded(r, d, None, "Unread")
    IN  IF ~d.ok THEN r1 ELSE [r1 EXCEPT !.pc = "ExtractingSchema"]

(* Variant: the changelog path shares the commit path's growth loop.       *)
InterpretOpenAIChangelog_with_growth_loop(r) == InterpretOpenAICommit(r)

InterpretOpenAIChangelog(r) == InterpretUnread(r, DecodeOpenAI(Unwrap(r.response_text)))

(* Variant: a stop_reason of max_tokens is read as Length and retried.     *)
InterpretAnthropic_retry_on_max_tokens(r) ==
    LET body == Unwrap(r.response_text)
        d == DecodeAnthropic(body)
    IN  IF d.ok /\ "stop_reason" \in DOMAIN body /\ body.stop_reason = "max_tokens"
        THEN OnLength(Decoded(r, d, Some("length"), "Length"))
        ELSE InterpretUnread(r, d)

(* AnthropicResponse has the content blocks only: whatever else the        *)
(* envelope holds (stop_reason among it) is not deserialized.              *)
InterpretAnthropic(r) == InterpretUnread(r, DecodeAnthropic(Unwrap(r.response_text)))

InterpretStep(r) ==
    IF r.provider = "openai"
    THEN IF r.kind = "commit" THEN InterpretOpenAICommit(r) ELSE InterpretOpenAIChangelog(r)
    ELSE InterpretAnthropic(r)

(* ExtractingSchema: fence strip, direct parse, then the brace extractor.  *)
(* The OpenAI-style client formats the direct parse's error into the       *)
(* message of the error it returns; the Anthropic-style client drops it.   *)
ShowJsonErr(e) == <<e.kind, " at column ", ToString(e.col)>>

JsonError(e) == Error(ShowJsonErr(e), None)

SchemaName(kind) == IF kind = "commit" THEN "commit message" ELSE "changelog"

(* from_str applied to the value of text: the text is evaluated once,      *)
(* before the call.                                                        *)
ParseText(text) == CHOOSE parsed \in {FromStr(v) : v \in {text}} : TRUE

ExtractOpenAIStep(r) ==
    LET clean_content == StripFence(Unwrap(r.content))
        direct == ParseText(clean_content)
        x == CHOOSE found \in {ExtractOpenAI(v) : v \in {clean_content}} : TRUE
        second == ParseText(Unwrap(x.span))
    IN  IF direct.ok THEN Success(r, direct.value)
        ELSE IF x.panic THEN [r EXCEPT !.pc = "Panicked"]
        ELSE IF x.span # None
             THEN IF second.ok THEN Success(r, second.value)
                  ELSE Fatal(r, Error(<<"Failed to parse extracted JSON from OpenAI response: ">>
                                      \o ShowJsonErr(direct),
                                      Some(JsonError(second))))
        ELSE Fatal(r, Error(<<"Failed to parse ", SchemaName(r.kind),
                              " from OpenAI response: ">> \o ShowJsonErr(direct), None))

ExtractAnthropicStep(r) ==
    LET clean_content == StripFence(Unwrap(r.content))
        direct == ParseText(clean_content)
        x == CHOOSE found \in {ExtractAnthropic(v) : v \in {clean_content}} : TRUE
        second == ParseText(Unwrap(x.span))
    IN  IF direct.ok THEN Success(r, direct.value)
        ELSE IF x.panic THEN [r EXCEPT !.pc = "Panicked"]
        ELSE IF x.span # None
             THEN IF second.ok THEN Success(r, second.value)
                  ELSE Fatal(r, Error(<<"Failed to parse extracted JSON from Anthropic response">>,
                                      Some(JsonError(second))))
        ELSE Fatal(r, Error(<<"No valid JSON object found in Anthropic response">>, None))

ExtractStep(r) ==
    IF r.provider = "openai" THEN ExtractOpenAIStep(r) ELSE ExtractAnthropicStep(r)

----------------------------------------------------------------------------
(* What the provider can answer.                                           *)

ObjF == <<"{", "f", "}">>

Contents ==
    { <<>>,
      <<" ">>,
      ObjF,
      <<"{", "g", "k", "{", "}", "}">>,
      FenceJson \o <<"\n">> \o ObjF \o <<"\n">> \o Fence,
      <<"c", "W", " ">> \o ObjF \o <<"c", "}">>,
      <<"}", "c", "{", "f", "}">>,
      <<"{", "f">>,
      <<"{", "c", "}">>,
      <<"c", "{", "}">> }

(* What a provider sends along with finish_reason "length": nothing, a     *)
(* blank, an object cut short, or an object that happens to be complete.   *)
TruncatedContents == { <<>>, <<" ">>, <<"{", "f">>, ObjF }

FinishReasons ==
    { None, Some("stop"), Some("stop_sequence"), Some("length"),
      Some("content_filter"), Some("tool_calls"), Some("LENGTH") }

Choice(content, finish_reason) == [content |-> content, finish_reason |-> finish_reason]

JsonBody(choices) == [form |-> "json", choices |-> choices]

SseBody(lines) == [form |-> "sse", lines |-> lines]

GarbageBody == [form |-> "garbage"]

OpenAIBodies ==
    { GarbageBody, JsonBody(<<>>) }
    \cup { JsonBody(<<Choice(None, fr)>>) : fr \in {Some("stop"), Some("length")} }
    \cup { JsonBody(<<Choice(Some(c), fr)>>) :
             c \in Contents, fr \in FinishReasons \ {Some("length")} }
    \cup { JsonBody(<<Choice(Some(c), Some("length"))>>) : c \in TruncatedContents }
    \cup { JsonBody(<<Choice(Some(ObjF), Some("stop")), Choice(Some(ObjF), Some("length"))>>) }
    \cup { SseBody(<<Line("done", <<>>)>>),
           SseBody(<<Line("garbage", <<>>), Line("chunk", <<None>>)>>),
           SseBody(<<Line("chunk", <<Some(<<"{", "f">>)>>), Line("other", <<>>),
                     Line("chunk", <<Some(<<"}">>)>>), Line("done", <<>>)>>),
           SseBody(<<Line("chunk", <<Some(<<"{">>), Some(<<"g">>)>>)>>) }

AnthropicBodies ==
    { GarbageBody, [form |-> "blocks", content |-> <<>>] }
    \cup { [form |-> "blocks", content |-> <<c>>] : c \in Contents }
    \cup { [form |-> "blocks", content |-> <<ObjF, <<"c">> >>] }
    \cup { [form |-> "blocks", content |-> <<c>>, stop_reason |-> "max_tokens"] :
             c \in TruncatedContents }

Bodies(provider) == IF provider = "openai" THEN OpenAIBodies ELSE AnthropicBodies

(* The body of an error response: the provider's own error text.           *)
ErrorBody(text) == [form |-> "error", text |-> text]

ErrorBodies == { ErrorBody("invalid key sk-live-1234"), ErrorBody("quota of org-42 exceeded") }

StatusCodes == {200, 204, 299, 199, 300, 400, 401, 403, 404, 429, 499, 500, 503, 599, 600}

Response(transport, status, body) ==
    [transport |-> transport, status |-> status, body |-> body]

Responses(provider) ==
    { Response("send_failed", 0, GarbageBody) }
    \cup { Response(t, st, b) : t \in {"ok", "read_failed"},
                                st \in {c \in StatusCodes : ~is_success(c)},
                                b \in ErrorBodies }
    \cup { Response("read_failed", 200, GarbageBody) }
    \cup { Response("ok", 200, b) : b \in Bodies(provider) }
    \cup { Response("ok", st, b) : st \in {c \in StatusCodes : is_success(c)},
                                  b \in {c \in Bodies(provider) : c.form = "garbage"} }

(* Configured budgets, among them values above the ceiling and values      *)
(* whose double does not fit in a u32.                                     *)
InitialMaxTokens ==
    {U32(1), U32(600), U32(2000), U32(5000), [hi |-> Limb \div 2, lo |-> 1000], U32Max}

----------------------------------------------------------------------------
(* The state machine of one run.                                           *)

Idle == [NewRun("openai", "commit", FALSE, U32(2000)) EXCEPT !.pc = "Unused"]

(* call holds one call of a function of the pipeline, made on its own;     *)
(* while a whole run is followed there is none.                            *)
NoCall == [pc |-> "Unused"]

Init ==
    /\ \E provider \in {"openai", "anthropic"}, kind \in {"commit", "changelog"},
          debug \in BOOLEAN, budget \in InitialMaxTokens :
          run = NewRun(provider, kind, debug, budget)
    /\ twin = Idle
    /\ call = NoCall

(* Building: the prompt is assembled; the loop starts at attempt 0 with    *)
(* the configured budget.                                                  *)
BuildStep(r) == [r EXCEPT !.pc = "Sending", !.attempt = 0, !.max_tokens = r.initial_max_tokens]

Build ==
    /\ run.pc = "Building"
    /\ run' = BuildStep(run)
    /\ UNCHANGED <<twin, call>>

Send ==
    /\ run.pc = "Sending"
    /\ run' = SendStep(run)
    /\ UNCHANGED <<twin, call>>

Receive ==
    /\ run.pc = "AwaitingResponse"
    /\ \E resp \in Responses(run.provider) : run' = ReceiveStep(run, resp)
    /\ UNCHANGED <<twin, call>>

(* The body that arrives belongs to the response whose status was read.    *)
ReadText ==
    /\ run.pc = "ReadingBody"
    /\ \E resp \in Responses(run.provider) :
          /\ resp.transport # "send_failed"
          /\ Some(resp.status) = run.status
          /\ run' = ReadStep(run, resp)
    /\ UNCHANGED <<twin, call>>

Interpret ==
    /\ run.pc = "Interpreting"
    /\ run' = InterpretStep(run)
    /\ UNCHANGED <<twin, call>>

Extract ==
    /\ run.pc = "ExtractingSchema"
    /\ run' = ExtractStep(run)
    /\ UNCHANGED <<twin, call>>

Next == Build \/ Send \/ Receive \/ ReadText \/ Interpret \/ Extract

Spec == Init /\ [][Next]_vars

(* A run of OpenAI-style commit-message generation whose HTTP calls all    *)
(* return and whose task is not cancelled: the run keeps taking its next   *)
(* step as long as it has one.                                             *)
InitLive ==
    /\ \E debug \in BOOLEAN : run = NewRun("openai", "commit", debug, U32(600))
    /\ twin = Idle
    /\ call = NoCall

SpecLive == InitLive /\ [][Next]_vars /\ WF_vars(Next)

----------------------------------------------------------------------------
(* Two runs of the same operation with the same configuration, run without *)
(* the debug flag and twin with it, fed the same provider responses.  Each *)
(* takes the step of its own position.                                     *)

StepOf(r, resp) ==
    IF r.pc = "Building" THEN BuildStep(r)
    ELSE IF r.pc = "Sending" THEN SendStep(r)
    ELSE IF r.pc = "AwaitingResponse" THEN ReceiveStep(r, resp)
    ELSE IF r.pc = "ReadingBody" THEN ReadStep(r, resp)
    ELSE IF r.pc = "Interpreting" THEN InterpretStep(r)
    ELSE IF r.pc = "ExtractingSchema" THEN ExtractStep(r)
    ELSE r

InitPair ==
    /\ \E provider \in {"openai", "anthropic"}, kind \in {"commit", "changelog"},
          budget \in InitialMaxTokens :
          /\ run = NewRun(provider, kind, FALSE, budget)
          /\ twin = NewRun(provider, kind, TRUE, budget)
    /\ call = NoCall

PairBuild ==
    /\ run.pc = "Building"
    /\ run' = BuildStep(run)
    /\ twin' = StepOf(twin, GarbageBody)
    /\ UNCHANGED call

PairSend ==
    /\ run.pc = "Sending"
    /\ run' = SendStep(run)
    /\ twin' = StepOf(twin, GarbageBody)
    /\ UNCHANGED call

PairReceive ==
    /\ run.pc = "AwaitingResponse"
    /\ \E resp \in Responses(run.provider) :
          /\ run' = ReceiveStep(run, resp)
          /\ twin' = StepOf(twin, resp)
    /\ UNCHANGED call

PairReadText ==
    /\ run.pc = "ReadingBody"
    /\ \E resp \in Responses(run.provider) :
          /\ resp.transport # "send_failed"
          /\ Some(resp.status) = run.status
          /\ run' = ReadStep(run, resp)
          /\ twin' = StepOf(twin, resp)
    /\ UNCHANGED call

PairInterpret ==
    /\ run.pc = "Interpreting"
    /\ run' = InterpretStep(run)
    /\ twin' = StepOf(twin, GarbageBody)
    /\ UNCHANGED call

PairExtract ==
    /\ run.pc = "ExtractingSchema"
    /\ run' = ExtractStep(run)
    /\ twin' = StepOf(twin, GarbageBody)
    /\ UNCHANGED call

NextPair ==
    PairBuild \/ PairSend \/ PairReceive \/ PairReadText \/ PairInterpret \/ PairExtract

SpecDebugPair == InitPair /\ [][NextPair]_vars

----------------------------------------------------------------------------
(* The stream decoder on its own: a response body is received, scanned by  *)
(* parse_streaming_response and decoded as the OpenAI-style clients do.    *)

MaxLines == 4

SeqsUpTo(S, n) == UNION {[1..k -> S] : k \in 0..n}

RawLines ==
    { <<>>,
      <<"x">>,
      <<" ">> \o Sentinel \o DoneMarker \o <<" ">>,
      Sentinel,
      Sentinel \o <<"x">>,
      Sentinel \o <<"chunk[{}]">>,
      Sentinel \o <<"chunk['']">>,
      Sentinel \o <<"chunk[a]">>,
      <<" ">> \o Sentinel \o <<" ", "chunk[b]", " ">>,
      Sentinel \o <<"chunk[c,d]">>,
      Sentinel \o <<"chunk[a]", "x">>,
      <<"data:", "chunk[b]">> }

TextBody(raw) == [form |-> "text", raw |-> raw]

StreamBodies ==
    { TextBody(raw) : raw \in SeqsUpTo(RawLines, MaxLines) }
    \cup { GarbageBody, JsonBody(<<>>), JsonBody(<<Choice(None, Some("stop"))>>),
           JsonBody(<<Choice(Some(ObjF), Some("stop"))>>),
           JsonBody(<<Choice(Some(<<>>), Some("length"))>>) }

InitStream ==
    /\ run = Idle
    /\ twin = Idle
    /\ \E body \in StreamBodies :
          call = [pc |-> "Received", body |-> body, streamed |-> None, decoded |-> None]

ScanStream ==
    /\ call.pc = "Received"
    /\ call' = [call EXCEPT !.pc = "Scanned",
                            !.streamed = parse_streaming_response(BodyLines(call.body))]
    /\ UNCHANGED <<run, twin>>

DecodeBody ==
    /\ call.pc = "Scanned"
    /\ call' = [call EXCEPT !.pc = "Decoded", !.decoded = Some(DecodeOpenAI(call.body))]
    /\ UNCHANGED <<run, twin>>

NextStream == ScanStream \/ DecodeBody

SpecStream == InitStream /\ [][NextStream]_vars

----------------------------------------------------------------------------
(* The schema extraction on its own: a run that has just read a complete   *)
(* answer with the given content, and next to it the fence stripper and,   *)
(* when the stripped text does not parse, the brace extractor of the run's *)
(* client applied to that content.                                         *)

MaxTextLen == 5

TextAlphabet == {"{", "}", "f", "c", "W"}

FencePrefixes ==
    { <<>>, Fence, FenceJson, <<" ">> \o Fence, <<Backtick, Backtick>>, Fence \o <<"j">> }

FenceSuffixes == { <<>>, Fence, Fence \o <<"\n">>, <<Backtick>> }

FencedCores ==
    { <<>>, ObjF, <<"\n">> \o ObjF \o <<"\n">>, <<"c">> \o ObjF, <<Backtick>>, <<"{", "f">>,
      <<"{", "f", "k", " ", "{", "}", "}">>, <<"{", "k", "f", "}">>,
      <<"n">>, <<"n", "c">>, <<"{", "k", "n", "}">> }

ExtractTexts ==
    SeqsUpTo(TextAlphabet, MaxTextLen)
    \cup Contents
    \cup { p \o c \o s : p \in FencePrefixes, c \in FencedCores, s \in FenceSuffixes }

(* The complete answer of the provider that holds the given content.       *)
AnswerWith(provider, text) ==
    IF provider = "openai"
    THEN JsonBody(<<Choice(Some(text), Some("stop"))>>)
    ELSE [form |-> "blocks", content |-> <<text>>]

(* The run once that answer is sent for, received and interpreted.         *)
AnsweredRun(provider, kind, text) ==
    LET resp == Response("ok", 200, AnswerWith(provider, text))
        sent == SendStep(BuildStep(NewRun(provider, kind, FALSE, U32(2000))))
    IN  InterpretStep(ReadStep(ReceiveStep(sent, resp), resp))

InitExtract ==
    /\ twin = Idle
    /\ \E provider \in {"openai", "anthropic"}, kind \in {"commit", "changelog"},
          text \in ExtractTexts :
          /\ run = AnsweredRun(provider, kind, text)
          /\ call = [pc |-> "Received", provider |-> provider, content |-> text,
                     clean_content |-> None, found |-> None]

StripCall ==
    /\ call.pc = "Received"
    /\ call' = [call EXCEPT !.pc = "Stripped",
                            !.clean_content = Some(StripFence(call.content))]
    /\ UNCHANGED <<run, twin>>

ScanCall ==
    /\ call.pc = "Stripped"
    /\ ~ParseText(Unwrap(call.clean_content)).ok
    /\ call' = [call EXCEPT !.pc = "Scanned",
                            !.found = Some(IF call.provider = "openai"
                                           THEN ExtractOpenAI(Unwrap(call.clean_content))
                                           ELSE ExtractAnthropic(Unwrap(call.clean_content)))]
    /\ UNCHANGED <<run, twin>>

NextExtract == StripCall \/ ScanCall \/ Extract

SpecExtract == InitExtract /\ [][NextExtract]_vars

----------------------------------------------------------------------------
(* The brace scan step by step: the for loop over char_indices() of each   *)
(* of the four copies of the scanner (one per client and operation), on a  *)
(* fence-stripped text whose direct parse failed.  i is the loop's         *)
(* position, scan its locals.                                              *)

ScanTexts == { t \in { StripFence(c) : c \in ExtractTexts } : ~FromStr(t).ok }

InitScan ==
    /\ run = Idle
    /\ twin = Idle
    /\ \E provider \in {"openai", "anthropic"}, kind \in {"commit", "changelog"},
          text \in ScanTexts :
          call = [pc |-> "Scanning", provider |-> provider, kind |-> kind,
                  clean_content |-> text, i |-> 1, scan |-> ScanInit, found |-> None]

(* One iteration of the loop.                                              *)
ScanChar ==
    /\ call.pc = "Scanning"
    /\ call.i <= Len(call.clean_content)
    /\ call.scan.end_idx = None
    /\ call' = [call EXCEPT !.scan = ScanStep(call.scan, call.clean_content, call.i,
                                              call.provider = "openai"),
                            !.i = @ + 1]
    /\ UNCHANGED <<run, twin>>

(* The loop is left, at the end of the text or by break, and the span is   *)
(* taken.                                                                  *)
ScanEnd ==
    /\ call.pc = "Scanning"
    /\ call.i > Len(call.clean_content) \/ call.scan.end_idx # None
    /\ call' = [call EXCEPT !.pc = "Scanned",
                            !.found = Some(ExtractSpan(call.clean_content,
                                                       call.provider = "openai"))]
    /\ UNCHANGED <<run, twin>>

NextScan == ScanChar \/ ScanEnd

SpecScan == InitScan /\ [][NextScan]_vars

----------------------------------------------------------------------------
(* CommitMessage: its deserialization from a JSON object and its           *)
(* rendering.  A JSON value is [t, v]: t its type, v its content; a JSON   *)
(* object is the sequence of its members, each <<key, value>>.  A Rust     *)
(* String is a TLA+ string here and a rendered message the sequence of the *)
(* strings pushed onto it.                                                 *)

JNull == [t |-> "null"]

JBool(b) == [t |-> "bool", v |-> b]

JNum(n) == [t |-> "number", v |-> n]

JStr(str) == [t |-> "string", v |-> str]

JArr(items) == [t |-> "array", v |-> items]

(* String                                                                  *)
DeString(v) ==
    IF v.t = "string" THEN Ok(v.v)
    ELSE Err(<<"invalid type: ", v.t, ", expected a string">>, None)

(* Option<String>                                                          *)
DeOptionString(v) ==
    IF v.t = "null" THEN Ok(None)
    ELSE IF v.t = "string" THEN Ok(Some(v.v))
    ELSE Err(<<"invalid type: ", v.t, ", expected a string">>, None)

IsStringArray(v) == v.t = "array" /\ \A i \in 1..Len(v.v) : v.v[i].t = "string"

Strings(v) == [i \in 1..Len(v.v) |-> v.v[i].v]

(* Option<Vec<String>>                                                     *)
DeOptionVecString(v) ==
    IF v.t = "null" THEN Ok(None)
    ELSE IF v.t # "array" THEN Err(<<"invalid type: ", v.t, ", expected a sequence">>, None)
    ELSE IF IsStringArray(v) THEN Ok(Some(Strings(v)))
    ELSE DeString(v.v[CHOOSE i \in 1..Len(v.v) :
                         /\ v.v[i].t # "string"
                         /\ \A k \in 1..(i - 1) : v.v[k].t = "string"])

(* Variant: a single string is taken for an array that was not given.      *)
deserialize_body_arrays_only(v) ==
    IF v.t = "string" THEN Ok(None)
    ELSE IF IsStringArray(v) THEN Ok(Some(Strings(v)))
    ELSE IF v.t = "null" THEN Ok(None)
    ELSE Err(<<"data did not match any variant of untagged enum ", "Body">>, None)

(* The untagged enum Body: String, Array, Null, tried in this order.       *)
deserialize_body(v) ==
    IF v.t = "string" THEN Ok(Some(<<v.v>>))
    ELSE IF IsStringArray(v) THEN Ok(Some(Strings(v)))
    ELSE IF v.t = "null" THEN Ok(None)
    ELSE Err(<<"data did not match any variant of untagged enum ", "Body">>, None)

(* The untagged enum BreakingChange: Bool, String, Null.                   *)
deserialize_breaking_change(v) ==
    IF v.t = "bool" THEN (IF v.v THEN Ok(Some("Breaking change")) ELSE Ok(None))
    ELSE IF v.t = "string" THEN Ok(Some(v.v))
    ELSE IF v.t = "null" THEN Ok(None)
    ELSE Err(<<"data did not match any variant of untagged enum ", "BreakingChange">>, None)

Fields ==
    <<"commit_type", "scope", "description", "description_en", "body", "body_en",
      "breaking_change">>

(* The field a key names ("" for a key that names none, which is ignored). *)
FieldOf(key) ==
    IF key \in {"type", "commit_type"} THEN "commit_type"
    ELSE IF \E i \in 1..Len(Fields) : Fields[i] = key THEN key
    ELSE ""

DeField(field, v) ==
    CASE field \in {"commit_type", "description", "description_en"} -> DeString(v)
      [] field = "scope" -> DeOptionString(v)
      [] field = "body" -> deserialize_body(v)
      [] field = "body_en" -> DeOptionVecString(v)
      [] field = "breaking_change" -> deserialize_breaking_change(v)

NoSlots == [f \in {Fields[i] : i \in 1..Len(Fields)} |-> None]

(* visit_map: the members in their order; slots[f] is None until field f   *)
(* is read and Some(its value) after.                                      *)
RECURSIVE VisitMap(_, _, _)
VisitMap(members, i, slots) ==
    IF i > Len(members) THEN Ok(slots)
    ELSE LET field == FieldOf(members[i][1])
             got == DeField(field, members[i][2])
         IN  IF field = "" THEN VisitMap(members, i + 1, slots)
             ELSE IF slots[field] # None THEN Err(<<"duplicate field ", field>>, None)
             ELSE IF ~got.ok THEN got
             ELSE VisitMap(members, i + 1, [slots EXCEPT ![field] = Some(got.value)])

(* What a field that no member named becomes: an Option without            *)
(* deserialize_with is None, #[serde(default)] gives the default, anything *)
(* else is an error.                                                       *)
MissingField(field) ==
    IF field \in {"commit_type", "description", "breaking_change"}
    THEN Err(<<"missing field ", field>>, None)
    ELSE IF field = "description_en" THEN Ok("")
    ELSE Ok(None)

(* The fields, in declaration order, from field i on.                      *)
RECURSIVE FillFrom(_, _)
FillFrom(slots, i) ==
    IF i > Len(Fields) THEN Ok(slots)
    ELSE LET field == Fields[i]
             missing == MissingField(field)
         IN  IF slots[field] # None THEN FillFrom([slots EXCEPT ![field] = Unwrap(@)], i + 1)
             ELSE IF ~missing.ok THEN missing
             ELSE FillFrom([slots EXCEPT ![field] = missing.value], i + 1)

(* <CommitMessage as Deserialize>::deserialize on a JSON object            *)
DeserializeCommitMessage(members) ==
    LET seen == VisitMap(members, 1, NoSlots)
    IN  IF ~seen.ok THEN seen ELSE FillFrom(seen.value, 1)

TranslationNeeded == "[Translation needed]"

(* The body of the for loop, for index i (0-based, as in the code).        *)
BodyEntry(body_zh, body_en, i) ==
    (IF i > 0 THEN <<"\n">> ELSE <<>>)
    \o (IF i < Len(body_zh) THEN <<body_zh[i + 1], "\n">> ELSE <<>>)
    \o (IF i < Len(body_en) THEN <<body_en[i + 1]>>
        ELSE IF i < Len(body_zh) THEN <<TranslationNeeded>> ELSE <<>>)

RECURSIVE BodyLoop(_, _, _, _)
BodyLoop(body_zh, body_en, i, max_len) ==
    IF i >= max_len THEN <<>>
    ELSE BodyEntry(body_zh, body_en, i) \o BodyLoop(body_zh, body_en, i + 1, max_len)

Max(a, b) == IF a >= b THEN a ELSE b

(* Variant: a strict pairwise zip, up to the shorter of the two.           *)
FormatBody_strict_zip(msg) ==
    IF msg.body # None /\ msg.body_en # None
       /\ (Unwrap(msg.body) # <<>> \/ Unwrap(msg.body_en) # <<>>)
    THEN <<"\n\n">> \o BodyLoop(Unwrap(msg.body), Unwrap(msg.body_en), 0,
                                 IF Len(Unwrap(msg.body)) <= Len(Unwrap(msg.body_en))
                                 THEN Len(Unwrap(msg.body)) ELSE Len(Unwrap(msg.body_en)))
    ELSE <<>>

(* if let (Some(body_zh), Some(body_en)) = (&self.body, &self.body_en)     *)
FormatBody(msg) ==
    IF msg.body # None /\ msg.body_en # None
       /\ (Unwrap(msg.body) # <<>> \/ Unwrap(msg.body_en) # <<>>)
    THEN <<"\n\n">> \o BodyLoop(Unwrap(msg.body), Unwrap(msg.body_en), 0,
                                 Max(Len(Unwrap(msg.body)), Len(Unwrap(msg.body_en))))
    ELSE <<>>

FormatHeader(msg) ==
    <<msg.commit_type>>
    \o (IF msg.scope # None THEN <<"(", Unwrap(msg.scope), ")">> ELSE <<>>)
    \o <<": ", msg.description, "\n", msg.description_en>>

FormatBreaking(msg) ==
    IF msg.breaking_change # None
    THEN <<"\n\n", "BREAKING CHANGE: ", Unwrap(msg.breaking_change)>>
    ELSE <<>>

format_conventional(msg) == FormatHeader(msg) \o FormatBody(msg) \o FormatBreaking(msg)

----------------------------------------------------------------------------
(* A commit message on its own: the JSON object of an answer is            *)
(* deserialized and, when that succeeds, rendered for the commit.          *)

MaxBodyLen == 2

ZhLines == {"a", "b"}

EnLines == {"x", "y"}

StringArrays(lines) ==
    { JArr([i \in 1..Len(q) |-> JStr(q[i])]) : q \in SeqsUpTo(lines, MaxBodyLen) }

(* What an answer may hold under each key: None when the key is absent.    *)
TypeValues == { None, Some(JStr("feat")) }

ScopeValues == { None, Some(JNull), Some(JStr("core")) }

DescriptionValues == { None, Some(JStr("d")) }

DescriptionEnValues == { None, Some(JStr("e")) }

BodyValues ==
    { None, Some(JNull), Some(JStr("a")), Some(JNum(7)), Some(JBool(TRUE)),
      Some(JArr(<<JStr("a"), JNum(7)>>)) }
    \cup { Some(arr) : arr \in StringArrays(ZhLines) }

BodyEnValues ==
    { None, Some(JNull), Some(JStr("x")), Some(JArr(<<JStr("x"), JNum(7)>>)) }
    \cup { Some(arr) : arr \in StringArrays(EnLines) }

BreakingChangeValues ==
    { None, Some(JNull), Some(JBool(TRUE)), Some(JBool(FALSE)), Some(JStr("drops v1")),
      Some(JStr("")), Some(JNum(0)) }

(* Members after the known ones: none, an unknown key, a second body, the  *)
(* type under its other name.                                              *)
ExtraMembers ==
    { <<>>, << <<"note", JNum(1)>> >>, << <<"body", JNull>> >>,
      << <<"commit_type", JStr("fix")>> >> }

Member(key, value) == IF value = None THEN <<>> ELSE << <<key, Unwrap(value)>> >>

InitMessage ==
    /\ run = Idle
    /\ twin = Idle
    /\ \E ty \in TypeValues, sc \in ScopeValues, de \in DescriptionValues,
          den \in DescriptionEnValues, bo \in BodyValues, ben \in BodyEnValues,
          br \in BreakingChangeValues, extra \in ExtraMembers :
          call = [pc |-> "Received",
                  members |-> Member("type", ty) \o Member("scope", sc)
                              \o Member("description", de)
                              \o Member("description_en", den)
                              \o Member("body", bo) \o Member("body_en", ben)
                              \o Member("breaking_change", br) \o extra,
                  parsed |-> None,
                  rendered |-> <<>>]

Deserialize ==
    /\ call.pc = "Received"
    /\ LET parsed == DeserializeCommitMessage(call.members)
       IN  call' = [call EXCEPT !.pc = IF parsed.ok THEN "Deserialized" ELSE "SchemaError",
                               !.parsed = Some(parsed)]
    /\ UNCHANGED <<run, twin>>

Render ==
    /\ call.pc = "Deserialized"
    /\ call' = [call EXCEPT !.pc = "Rendered",
                            !.rendered = format_conventional(Unwrap(call.parsed).value)]
    /\ UNCHANGED <<run, twin>>

NextMessage == Deserialize \/ Render

SpecMessage == InitMessage /\ [][NextMessage]_vars

----------------------------------------------------------------------------
(* The diff of the commit prompt.  build_prompt includes                   *)
(* truncate_diff(diff, 3000); str::len and str::is_char_boundary count     *)
(* bytes.                                                                  *)

DiffBudget == 3000

(* while !diff.is_char_boundary(boundary) && boundary > 0 { boundary -= 1 } *)
RECURSIVE FloorBoundary(_, _)
FloorBoundary(diff, boundary) ==
    IF ~IsCharBoundary(diff, boundary) /\ boundary > 0
    THEN FloorBoundary(diff, boundary - 1)
    ELSE boundary

(* [panic, text]: &diff[..boundary] panics unless boundary is a char       *)
(* boundary of diff.                                                       *)
truncate_diff(diff, max_chars) ==
    IF ByteLen(diff) <= max_chars
    THEN [panic |-> FALSE, text |-> diff]
    ELSE LET boundary == FloorBoundary(diff, max_chars)
         IN  IF SliceInRange(diff, 0, boundary)
             THEN [panic |-> FALSE, text |-> ByteSlice(diff, 0, boundary)]
             ELSE [panic |-> TRUE, text |-> <<>>]

(* The "Git Diff:" section of the prompt.                                  *)
build_prompt(diff) == truncate_diff(diff, DiffBudget)

(* The truncation on its own: a diff and a budget are given, the diff is   *)
(* truncated to the budget.  The budgets are the small ones, which cut the *)
(* diffs of this model, and the one build_prompt passes.                   *)

MaxDiffLen == 5

MaxBudget == 6

DiffAlphabet == {"a", "W", "Z"}

Diffs == SeqsUpTo(DiffAlphabet, MaxDiffLen)

Budgets == (0..MaxBudget) \cup {DiffBudget}

InitPrompt ==
    /\ run = Idle
    /\ twin = Idle
    /\ \E diff \in Diffs, max_chars \in Budgets :
          call = [pc |-> "Given", diff |-> diff, max_chars |-> max_chars, included |-> None]

TruncateDiff ==
    /\ call.pc = "Given"
    /\ call' = [call EXCEPT !.pc = "Truncated",
                            !.included = Some(IF call.max_chars = DiffBudget
                                              THEN build_prompt(call.diff)
                                              ELSE truncate_diff(call.diff, call.max_chars))]
    /\ UNCHANGED <<run, twin>>

NextPrompt == TruncateDiff

SpecPrompt == InitPrompt /\ [][NextPrompt]_vars

----------------------------------------------------------------------------
(* The commit command (handle_commit_command).  call is the command: pc    *)
(* its position, auto, show_diff and debug its flags, is_clean, diff_empty,*)
(* preview and action what it has observed so far (the status, the diff,   *)
(* the answer to the diff preview, the action chosen), commits the         *)
(* messages `git commit` was executed with, exit how it returned.  run is  *)
(* the generation of the commit message, started by the command.           *)

(* return Ok(()) / return Err (the ? operator) / a panic                   *)
Return(c, how) == [c EXCEPT !.pc = "Returned", !.exit = Some(how)]

InitCommit ==
    /\ run = Idle
    /\ twin = Idle
    /\ \E auto \in BOOLEAN, show_diff \in BOOLEAN, debug \in BOOLEAN :
          call = [pc |-> "CheckingStatus", auto |-> auto, show_diff |-> show_diff,
                  debug |-> debug, is_clean |-> None, diff_empty |-> None,
                  preview |-> None, action |-> None, commits |-> <<>>, exit |-> None]

(* repo.get_status()? and the is_clean test                                *)
CheckStatus ==
    /\ call.pc = "CheckingStatus"
    /\ \E status \in {"failed", "clean", "changes"} :
          call' = IF status = "failed" THEN Return(call, "err")
                  ELSE IF status = "clean"
                       THEN Return([call EXCEPT !.is_clean = Some(TRUE)], "ok")
                  ELSE [call EXCEPT !.is_clean = Some(FALSE), !.pc = "Staging"]
    /\ UNCHANGED <<run, twin>>

(* check_and_stage_changes()?: staged or left as it is, failed (the        *)
(* prompt or `git add`), or panicked: &line[3..] on a status line of an    *)
(* unstaged file that is shorter than 3 bytes or has byte 3 inside a       *)
(* character.                                                              *)
StageChanges ==
    /\ call.pc = "Staging"
    /\ \E staging \in {"ok", "failed", "status line cut before byte 3"} :
          call' = IF staging = "ok" THEN [call EXCEPT !.pc = "Diffing"]
                  ELSE IF staging = "failed" THEN Return(call, "err")
                  ELSE Return(call, "panic")
    /\ UNCHANGED <<run, twin>>

(* repo.get_combined_diff()?, the debug print of its first 100 bytes       *)
(* (&diff[..100] panics when byte 100 is inside a character) and the       *)
(* is_empty test                                                           *)
GetDiff ==
    /\ call.pc = "Diffing"
    /\ \E diff \in {"failed", "empty", "changes"} \cup
                    (IF call.debug THEN {"cut inside a character"} ELSE {}) :
          call' = IF diff = "failed" THEN Return(call, "err")
                  ELSE IF diff = "cut inside a character" THEN Return(call, "panic")
                  ELSE IF diff = "empty"
                       THEN Return([call EXCEPT !.diff_empty = Some(TRUE)], "ok")
                  ELSE [call EXCEPT !.diff_empty = Some(FALSE), !.pc = "Previewing"]
    /\ UNCHANGED <<run, twin>>

(* Variant: the answer to the preview is not looked at.                    *)
PreviewDiff_answer_ignored ==
    /\ call.pc = "Previewing"
    /\ \E answer \in (IF call.show_diff THEN {"failed", "yes", "no"} ELSE {"not asked"}) :
          call' = IF answer = "failed" THEN Return(call, "err")
                  ELSE [call EXCEPT !.preview = IF answer = "not asked" THEN None
                                                ELSE Some(answer = "yes"),
                                    !.pc = "Preparing"]
    /\ UNCHANGED <<run, twin>>

(* if show_diff && !CommitUI::show_diff_preview(&diff, 30)? { return }     *)
PreviewDiff ==
    /\ call.pc = "Previewing"
    /\ \E answer \in (IF call.show_diff THEN {"failed", "yes", "no"} ELSE {"not asked"}) :
          call' = IF answer = "failed" THEN Return(call, "err")
                  ELSE IF answer = "no"
                       THEN Return([call EXCEPT !.preview = Some(FALSE)], "ok")
                  ELSE [call EXCEPT !.preview = IF answer = "not asked" THEN None
                                                ELSE Some(TRUE),
                                    !.pc = "Preparing"]
    /\ UNCHANGED <<run, twin>>

(* The API key, the branch info and create_client, each of which may fail; *)
(* get_branch_info panics on a branch whose name is not UTF-8              *)
(* (head.name().unwrap()); the client gets the provider and the max_tokens *)
(* of the configuration; then generate_commit_message is called.           *)
CreateClient ==
    /\ call.pc = "Preparing"
    /\ \E got \in {"no api key", "no branch info", "branch name not UTF-8",
                    "unsupported provider", "openai", "anthropic"},
          max_tokens \in InitialMaxTokens :
          IF got \in {"openai", "anthropic"}
          THEN /\ call' = [call EXCEPT !.pc = "Generating"]
               /\ run' = NewRun(got, "commit", call.debug, max_tokens)
          ELSE /\ call' = Return(call, IF got = "branch name not UTF-8" THEN "panic"
                                       ELSE "err")
               /\ run' = run
    /\ UNCHANGED twin

(* .await?: the commit message, or the error returned                      *)
Generated ==
    /\ call.pc = "Generating"
    /\ run.pc \in {"Success", "Fatal"}
    /\ call' = IF run.pc = "Success" THEN [call EXCEPT !.pc = "Confirming"]
               ELSE Return(call, "err")
    /\ UNCHANGED <<run, twin>>

(* if auto { Accept } else { CommitUI::confirm_commit(&commit_message)? }  *)
ConfirmCommit ==
    /\ call.pc = "Confirming"
    /\ \E chosen \in (IF call.auto THEN {"Accept"}
                       ELSE {"Accept", "Edit", "Regenerate", "Cancel", "failed"}) :
          call' = IF chosen = "failed" THEN Return(call, "err")
                  ELSE [call EXCEPT !.action = Some(chosen), !.pc = "Acting"]
    /\ UNCHANGED <<run, twin>>

(* execute_commit(message)?: `git commit -m message` is run.  git says     *)
(* what becomes of it: "not run" (the child cannot be spawned: no git, a   *)
(* NUL byte in the message, an argument list too long), "failed" (git ran  *)
(* and exited with a failure), "ok".  The first two are returned as an     *)
(* error.                                                                  *)
execute_commit(c, message, git) ==
    IF git = "not run" THEN Return(c, "err")
    ELSE Return([c EXCEPT !.commits = Append(@, message)],
                IF git = "ok" THEN "ok" ELSE "err")

(* match action                                                            *)
ExecuteAction ==
    /\ call.pc = "Acting"
    /\ \E git \in {"not run", "failed", "ok"} :
          call' = IF call.action = Some("Accept")
                  THEN execute_commit(call, <<"format_conventional", Unwrap(run.result)>>, git)
                  ELSE IF call.action = Some("Edit")
                       THEN execute_commit(call, <<"edited_message">>, git)
                  ELSE Return(call, "ok")
    /\ UNCHANGED <<run, twin>>

NextCommit ==
    \/ CheckStatus \/ StageChanges \/ GetDiff \/ PreviewDiff \/ CreateClient
    \/ Build \/ Send \/ Receive \/ ReadText \/ Interpret \/ Extract
    \/ Generated \/ ConfirmCommit \/ ExecuteAction

SpecCommit == InitCommit /\ [][NextCommit]_vars

----------------------------------------------------------------------------
(* Vocabulary of the properties.                                           *)

IsCommit == run.kind = "commit"

IsOpenAICommit == run.provider = "openai" /\ run.kind = "commit"

Terminal == run.pc \in {"Success", "Fatal"}

AttemptsRead == Len(run.signals)

LastSignal == run.signals[Len(run.signals)]

(* Every attempt of the run so far read the completion signal Length and   *)
(* text of one of the given classes.                                       *)
AllLength(classes) ==
    \A i \in 1..Len(run.signals) :
        run.signals[i].signal = "Length" /\ run.signals[i].text \in classes

(* min(2 * budget, 4000), computed without the u32 operations.             *)
DoubledCapped(budget) ==
    IF U32Le(U32(2000), budget) THEN U32(4000) ELSE U32(2 * budget.lo)

----------------------------------------------------------------------------
(* C1 (as amended): on the OpenAI-style commit path, when each of the 4    *)
(* attempts reads the completion signal Length with text that is not blank *)
(* (not empty after trimming whitespace), the run is Fatal with the        *)
(* "truncated before completing the JSON" error after exactly 4 sends; and *)
(* no run ever issues a 5th send.                                          *)
C1_TruncatedAfterFourSends ==
    IsOpenAICommit =>
        /\ Len(run.sends) <= max_attempts
        /\ (AttemptsRead = max_attempts /\ AllLength({"text"})) =>
              /\ run.pc = "Fatal"
              /\ run.error = Some(TruncatedJsonError)
              /\ Len(run.sends) = 4

C1_Witness ==
    /\ IsOpenAICommit
    /\ AttemptsRead = max_attempts
    /\ AllLength({"text"})
    /\ run.pc = "Fatal"
    /\ Len(run.sends) = 4

(* C1 as stated: the same for every non-empty text, blank text included.   *)
C1_AsStated ==
    (IsOpenAICommit /\ AttemptsRead = max_attempts /\ AllLength({"text", "blank"})) =>
        /\ run.pc = "Fatal"
        /\ run.error = Some(TruncatedJsonError)
        /\ Len(run.sends) = 4

----------------------------------------------------------------------------
(* C2: on the OpenAI-style commit path, an attempt that reads Length and   *)
(* is not the last allowed one (whatever its text) leads back to Sending   *)
(* with the attempt index one higher, and every send after the first       *)
(* carries min(2 * the previous send's budget, 4000), hence at most 4000.  *)
C2_LengthDoublesBudget ==
    IsOpenAICommit =>
        /\ \A i \in 2..Len(run.sends) :
              /\ run.sends[i].max_tokens = DoubledCapped(run.sends[i - 1].max_tokens)
              /\ U32Le(run.sends[i].max_tokens, U32(4000))
              /\ run.signals[i - 1].signal = "Length"
        /\ (/\ AttemptsRead >= 1
            /\ AttemptsRead < max_attempts
            /\ LastSignal.signal = "Length"
            /\ Len(run.sends) = AttemptsRead) =>
              /\ run.pc = "Sending"
              /\ run.attempt = AttemptsRead
              /\ run.max_tokens = DoubledCapped(run.sends[AttemptsRead].max_tokens)
        /\ (/\ AttemptsRead >= 1
            /\ AttemptsRead < max_attempts
            /\ LastSignal.signal = "Length") =>
              Len(run.sends) \in {AttemptsRead, AttemptsRead + 1}

(* A third send whose budget was doubled from a value that did not come    *)
(* from the ceiling, after an attempt with empty text.                     *)
C2_Witness ==
    /\ IsOpenAICommit
    /\ Len(run.sends) = 3
    /\ run.sends[1].max_tokens = U32(600)
    /\ run.sends[3].max_tokens = U32(2400)
    /\ run.signals[2].text = "empty"

----------------------------------------------------------------------------
(* C3: in commit-message generation an attempt that reads Stop or Absent   *)
(* goes to ExtractingSchema and is the last send of the run: from there    *)
(* the run ends in Success with a schema value or in Fatal, and no further *)
(* request is sent.                                                        *)
C3_StopInv ==
    (IsCommit /\ AttemptsRead >= 1 /\ LastSignal.signal \in {"Stop", "Absent"}) =>
        /\ run.pc \in {"ExtractingSchema", "Success", "Fatal"}
        /\ Len(run.sends) = AttemptsRead
        /\ run.pc = "Success" => run.result # None /\ run.error = None
        /\ run.pc = "Fatal" => run.result = None /\ run.error # None

C3_StopStep ==
    /\ (/\ IsCommit
        /\ run.pc = "Interpreting"
        /\ Len(run'.signals) = Len(run.signals) + 1
        /\ run'.signals[Len(run'.signals)].signal \in {"Stop", "Absent"}) =>
          /\ run'.pc = "ExtractingSchema"
          /\ run'.sends = run.sends
    /\ (IsCommit /\ run.pc = "ExtractingSchema") =>
          /\ run'.pc \in {"Success", "Fatal"}
          /\ run'.sends = run.sends

C3_StopIsLastSend == []C3_StopInv /\ [][C3_StopStep]_vars

(* Success and Fatal both reached after a Stop / an Absent on a retry.     *)
C3_Witness ==
    /\ IsCommit
    /\ AttemptsRead = 2
    /\ LastSignal.signal = "Absent"
    /\ LastSignal.text = "blank"
    /\ run.pc = "Fatal"

----------------------------------------------------------------------------
(* C4: in commit-message generation an attempt that reads                  *)
(* finish_reason content_filter ends the run in Fatal at once, on any      *)
(* attempt: no further send, no budget growth, no schema extraction.       *)
C4_ContentFilterFatal ==
    (IsCommit /\ AttemptsRead >= 1 /\ LastSignal.finish_reason = Some("content_filter")) =>
        /\ run.pc = "Fatal"
        /\ run.error = Some(ContentFilterError)
        /\ Len(run.sends) = AttemptsRead
        /\ run.max_tokens = run.sends[Len(run.sends)].max_tokens
        /\ run.result = None

C4_Witness ==
    /\ IsCommit
    /\ AttemptsRead = 3
    /\ LastSignal.finish_reason = Some("content_filter")
    /\ LastSignal.text = "text"
    /\ run.pc = "Fatal"

----------------------------------------------------------------------------
(* C5: in commit-message generation an attempt whose finish_reason is a    *)
(* string other than stop, stop_sequence, length and content_filter ends   *)
(* the run in Fatal at once with no further send, and the error carries    *)
(* that string unchanged.                                                  *)
Recognised == {"stop", "stop_sequence", "length", "content_filter"}

C5_UnknownReasonFatal ==
    (/\ IsCommit
     /\ AttemptsRead >= 1
     /\ LastSignal.finish_reason # None
     /\ Unwrap(LastSignal.finish_reason) \notin Recognised) =>
        /\ run.pc = "Fatal"
        /\ Len(run.sends) = AttemptsRead
        /\ run.result = None
        /\ run.error = Some(Error(<<"Unexpected finish_reason '",
                                    Unwrap(LastSignal.finish_reason),
                                    "' from AI response.">>, None))

C5_Witness ==
    /\ IsCommit
    /\ AttemptsRead = 2
    /\ LastSignal.finish_reason = Some("LENGTH")
    /\ run.pc = "Fatal"

----------------------------------------------------------------------------
(* C6 (as amended): when the last allowed attempt of commit-message        *)
(* generation reads Length, the run is Fatal with the "truncated           *)
(* repeatedly, resulting in empty content" error if and only if the text   *)
(* is blank (empty after trimming whitespace) and with the "truncated      *)
(* before completing the JSON" error if and only if it is not; neither     *)
(* error is produced on an attempt that is not the last allowed one.       *)
LastAttemptLength ==
    IsCommit /\ AttemptsRead = max_attempts /\ LastSignal.signal = "Length"

TruncationErrors == {Some(TruncatedRepeatedlyError), Some(TruncatedJsonError)}

C6_TruncationErrorByText ==
    /\ LastAttemptLength =>
          /\ run.pc = "Fatal"
          /\ run.error \in TruncationErrors
          /\ run.error = Some(TruncatedRepeatedlyError)
                <=> LastSignal.text \in {"empty", "blank"}
          /\ run.error = Some(TruncatedJsonError) <=> LastSignal.text = "text"
    /\ run.error \in TruncationErrors => LastAttemptLength

C6_Witness ==
    /\ LastAttemptLength
    /\ LastSignal.text = "blank"
    /\ run.error = Some(TruncatedRepeatedlyError)

(* C6 as stated: the first error exactly when the text is empty.           *)
C6_AsStated ==
    LastAttemptLength =>
        /\ run.error = Some(TruncatedRepeatedlyError) <=> LastSignal.text = "empty"
        /\ run.error = Some(TruncatedJsonError) <=> LastSignal.text # "empty"

----------------------------------------------------------------------------
(* C7: changelog generation sends exactly one request per run, with the    *)
(* initial token budget, whatever the provider returns, on both the        *)
(* OpenAI-style and the Anthropic-style path: no retry, no budget growth.  *)
C7_ChangelogSingleSend ==
    run.kind = "changelog" =>
        /\ Len(run.sends) <= 1
        /\ run.pc \notin {"Building", "Sending"} => Len(run.sends) = 1
        /\ \A i \in 1..Len(run.sends) : run.sends[i].max_tokens = run.initial_max_tokens
        /\ run.max_tokens = run.initial_max_tokens
        /\ run.attempt = 0

(* A changelog run that was answered with finish_reason length and ended.  *)
C7_Witness ==
    /\ run.kind = "changelog"
    /\ run.provider = "openai"
    /\ Terminal
    /\ run.response_text # None
    /\ Unwrap(run.response_text).form = "json"
    /\ Unwrap(run.response_text).choices # <<>>
    /\ Unwrap(run.response_text).choices[1].finish_reason = Some("length")
    /\ Len(run.sends) = 1

----------------------------------------------------------------------------
(* C8: a transport error or a non-2xx status on any attempt ends the run   *)
(* in Fatal directly: nothing is sent after it and its body is never       *)
(* interpreted as model output.  Once the failure is seen the run is Fatal *)
(* or, the status having just arrived, waits for the error body, and its   *)
(* next step is Fatal.                                                     *)
AttemptFailed ==
    \/ run.transport \in {Some("send_failed"), Some("read_failed")}
    \/ run.status # None /\ ~is_success(Unwrap(run.status))

C8_FailedInv ==
    AttemptFailed =>
        /\ run.pc \in {"ReadingBody", "Fatal"}
        /\ run.pc = "ReadingBody" <=> run.transport = None
        /\ run.pc = "Fatal" <=> run.error # None
        /\ Len(run.sends) = run.attempt + 1
        /\ run.response_text = None
        /\ run.content = None
        /\ AttemptsRead = run.attempt
        /\ run.result = None

(* The step after the failure ends in Fatal without a request; Fatal is    *)
(* final: no step leaves it.                                               *)
C8_FatalStep ==
    /\ AttemptFailed => run'.pc = "Fatal" /\ run'.sends = run.sends
    /\ run.pc = "Fatal" => run' = run

C8_TransportOrHttpErrorFatal == []C8_FailedInv /\ [][C8_FatalStep]_vars

(* A server error on the third attempt of a commit run.                    *)
C8_Witness ==
    /\ IsOpenAICommit
    /\ run.attempt = 2
    /\ run.status = Some(503)
    /\ run.pc = "Fatal"

----------------------------------------------------------------------------
(* C9 (as amended): for every non-2xx response whose body could be read,   *)
(* the error is determined by the status code: 401 credential failure, 403 *)
(* permission failure, 429 rate-limited, 500..599 upstream-service error,  *)
(* anything else generic request failure, followed by the status; the      *)
(* error never contains the response body; in all four operations.  When   *)
(* the body of the error response cannot be read, the error is the         *)
(* transport error instead.                                                *)
Taxonomy(status) ==
    IF status = 401 THEN "AuthError"
    ELSE IF status = 403 THEN "PermissionError"
    ELSE IF status = 429 THEN "RateLimited"
    ELSE IF status \in 500..599 THEN "UpstreamServiceError"
    ELSE "GenericRequestError"

TaxonomyText(member) ==
    IF member = "AuthError" THEN {"Authentication failed. Please check your API key."}
    ELSE IF member = "PermissionError"
         THEN {"Access forbidden. Please check your API permissions."}
    ELSE IF member = "RateLimited" THEN {"Rate limit exceeded. Please try again later."}
    ELSE IF member = "UpstreamServiceError"
         THEN {"OpenAI service error. Please try again later.",
               "Anthropic service error. Please try again later."}
    ELSE {"Request failed. Please check your configuration."}

ErrorTexts == { b.text : b \in ErrorBodies }

HttpFailed == run.status # None /\ ~is_success(Unwrap(run.status))

(* The reason phrase that follows the number: that of the code for the     *)
(* codes of this model that have one.                                      *)
Phrase(status) ==
    CASE status = 300 -> "Multiple Choices"
      [] status = 400 -> "Bad Request"
      [] status = 401 -> "Unauthorized"
      [] status = 403 -> "Forbidden"
      [] status = 404 -> "Not Found"
      [] status = 429 -> "Too Many Requests"
      [] status = 500 -> "Internal Server Error"
      [] status = 503 -> "Service Unavailable"
      [] OTHER -> "<unknown status code>"

(* The error is the text of the status's taxonomy member followed by the   *)
(* status, number and phrase, and by nothing else.                         *)
StatusMapped ==
    LET e == Unwrap(run.error)
    IN  /\ run.error # None
        /\ Len(e.parts) = 6
        /\ e.parts[1] \in TaxonomyText(Taxonomy(Unwrap(run.status)))
        /\ e.parts[2] = " (Status: "
        /\ e.parts[3] = ToString(Unwrap(run.status))
        /\ e.parts[5] = Phrase(Unwrap(run.status))
        /\ e.parts[6] = ")"
        /\ \A i \in 1..Len(e.parts) : e.parts[i] \notin ErrorTexts
        /\ e.source = None

C9_StatusMapsToSafeError ==
    /\ HttpFailed => run.pc \in {"ReadingBody", "Fatal"}
    /\ (HttpFailed /\ run.pc = "Fatal") => run.transport \in {Some("ok"), Some("read_failed")}
    /\ (HttpFailed /\ run.transport = Some("ok")) => run.pc = "Fatal" /\ StatusMapped
    /\ (HttpFailed /\ run.transport = Some("read_failed")) =>
          run.pc = "Fatal" /\ run.error = Some(ReqwestError)

C9_Witness ==
    /\ HttpFailed
    /\ run.transport = Some("ok")
    /\ run.provider = "anthropic"
    /\ run.kind = "changelog"
    /\ run.status = Some(599)
    /\ run.debug
    /\ run.diag # <<>>
    /\ run.pc = "Fatal"
    /\ StatusMapped

(* C9 as stated: whenever a run has ended on a non-2xx status, its error is *)
(* the one mapped from that status.  (While the status has arrived and the *)
(* error body is still being read the run has no error yet; that state is  *)
(* not what the statement is about.)                                       *)
C9_AsStated == (HttpFailed /\ run.pc = "Fatal") => StatusMapped

----------------------------------------------------------------------------
(* C10: the debug flag never affects control flow: a run with it and a run *)
(* without it, given the same provider responses, agree at every step on   *)
(* everything but what is printed: position, sends (budgets and messages), *)
(* attempt, signals, result and error.                                     *)
Observable(r) == [r EXCEPT !.debug = FALSE, !.diag = <<>>]

C10_DebugDoesNotAffectControlFlow ==
    /\ Observable(run) = Observable(twin)
    /\ ~run.debug /\ run.diag = <<>>
    /\ twin.debug

(* The debug run printed on a retry and both runs ended alike.             *)
C10_Witness ==
    /\ twin.debug
    /\ twin.pc = "Success"
    /\ run.pc = "Success"
    /\ twin.attempt = 2
    /\ Len(twin.diag) >= 6
    /\ run.diag = <<>>

----------------------------------------------------------------------------
(* Vocabulary of the stream decoder's properties, read off the text of the *)
(* lines: a data line is a line that, trimmed, is the sentinel followed by *)
(* something; it carries the fragments of its chunk when what follows the  *)
(* sentinel is one chunk, blanks aside.                                    *)
Scanned == call.pc \in {"Scanned", "Decoded"} /\ call.body.form = "text"

IsDataLine(raw) ==
    LET line == Trim(raw)
    IN  Len(line) > 2 /\ line[1] = "data:" /\ line[2] = " "

LineFragments(raw) ==
    LET line == Trim(raw)
        chunkAt == {i \in 3..Len(line) : line[i] \in ChunkTokens}
    IN  IF /\ IsDataLine(raw)
           /\ Cardinality(chunkAt) = 1
           /\ \A i \in 3..Len(line) : i \in chunkAt \/ line[i] = " "
        THEN LET choices == ChunkChoices(line[CHOOSE i \in chunkAt : TRUE])
             IN  [j \in 1..Len(choices) |->
                     IF choices[j] = None THEN <<>> ELSE choices[j][1]]
        ELSE <<>>

(* The fragments of lines i.. from choice j on, joined in source order.    *)
RECURSIVE JoinFrom(_, _, _)
JoinFrom(raws, i, j) ==
    IF i > Len(raws) THEN <<>>
    ELSE IF j > Len(LineFragments(raws[i])) THEN JoinFrom(raws, i + 1, 1)
    ELSE LineFragments(raws[i])[j] \o JoinFrom(raws, i, j + 1)

CarriesFragment(raws) ==
    \E i \in 1..Len(raws) : \E j \in 1..Len(LineFragments(raws[i])) :
        LineFragments(raws[i])[j] # <<>>

(* C11: for every input with at least one data line that carries a         *)
(* non-empty content fragment, parse_streaming_response returns the        *)
(* concatenation of all fragments of all parsed chunk lines, in the order  *)
(* of the lines and of the choices within a line; chunks with an empty     *)
(* delta contribute nothing and the [DONE] line is skipped.                *)
C11_StreamConcatenatesInOrder ==
    /\ (Scanned /\ CarriesFragment(call.body.raw)) =>
          call.streamed = Some(JoinFrom(call.body.raw, 1, 1))
    /\ (Scanned /\ call.body.raw = <<Sentinel \o <<"chunk[a]">>, <<>>,
                                      Sentinel \o <<"chunk[{}]">>,
                                      <<" ">> \o Sentinel \o DoneMarker \o <<" ">> >>) =>
          call.streamed = Some(<<"a">>)

(* Three chunk lines, the second with two choices, give their fragments in *)
(* source order.                                                           *)
C11_Witness ==
    /\ Scanned
    /\ Len(call.body.raw) = 4
    /\ call.body.raw[2] = Sentinel \o <<"chunk[{}]">>
    /\ call.streamed = Some(<<"b", "c", "d", "a">>)

----------------------------------------------------------------------------
(* C12: parse_streaming_response returns None exactly when no trimmed line *)
(* begins with the sentinel or when some line does but the buffer stayed   *)
(* empty; it never returns an empty string; and when it returns None the   *)
(* caller reads the whole body as one OpenAIResponse envelope.             *)
NoSentinelLine(raws) == \A i \in 1..Len(raws) : ~IsDataLine(raws[i])

C12_NotAStream ==
    /\ Scanned =>
          /\ call.streamed = None <=>
                \/ NoSentinelLine(call.body.raw)
                \/ ~NoSentinelLine(call.body.raw) /\ JoinFrom(call.body.raw, 1, 1) = <<>>
          /\ call.streamed # Some(<<>>)
    /\ call.pc \in {"Scanned", "Decoded"} => call.streamed # Some(<<>>)
    /\ (call.pc = "Decoded" /\ call.streamed = None) =>
          Unwrap(call.decoded) = ParseOpenAIEnvelope(call.body)

(* A body with data lines but no content is no stream, and the caller's    *)
(* envelope parse then fails on it; a plain envelope is read as such.      *)
C12_Witness ==
    /\ call.pc = "Decoded"
    /\ call.body.form = "text"
    /\ ~NoSentinelLine(call.body.raw)
    /\ \E i \in 1..Len(call.body.raw) : call.body.raw[i] = Sentinel \o <<"chunk['']">>
    /\ call.streamed = None
    /\ ~Unwrap(call.decoded).ok

----------------------------------------------------------------------------
(* Vocabulary of the extraction's properties, by counting braces.          *)
Opens(t, a, b) == Cardinality({k \in a..b : t[k] = "{"})

Closes(t, a, b) == Cardinality({k \in a..b : t[k] = "}"})

NoBraces(t, a, b) == \A k \in a..b : t[k] \notin {"{", "}"}

(* t[i..j] opens at i, closes at j and nowhere before.                     *)
BalancedObject(t, i, j) ==
    /\ i < j
    /\ t[i] = "{"
    /\ t[j] = "}"
    /\ Opens(t, i, j) = Closes(t, i, j)
    /\ \A m \in i..(j - 1) : Opens(t, i, m) > Closes(t, i, m)

NoBalancedSpan(t) == \A i, j \in 1..Len(t) : ~BalancedObject(t, i, j)

CleanContent == Unwrap(call.clean_content)

Found == Unwrap(call.found)

(* C13: for a text made of commentary without braces, one brace-balanced   *)
(* object and any trailing text, the extractor of either client returns    *)
(* the substring from the first "{" to the "}" that closes it, whatever    *)
(* braces follow.                                                          *)
C13_ExtractsFirstBalancedObject ==
    call.pc = "Scanned" =>
        \A i, j \in 1..Len(CleanContent) :
            (NoBraces(CleanContent, 1, i - 1) /\ BalancedObject(CleanContent, i, j)) =>
                Found = [panic |-> FALSE, span |-> Some(SubSeq(CleanContent, i, j))]

(* Commentary with a two-byte character, the object, then a stray brace.   *)
C13_Witness ==
    /\ call.pc = "Scanned"
    /\ call.provider = "anthropic"
    /\ CleanContent = <<"c", "W", " ", "{", "f", "}", "c", "}">>
    /\ Found.span = Some(ObjF)

----------------------------------------------------------------------------
(* C14: for a text that is not directly parseable and holds no balanced    *)
(* span, the extractor finds no object and the run is Fatal with the       *)
(* error of the no-object branch (no extraction-stage parse error behind   *)
(* it); and no text makes the slice go out of range.                       *)
NoObjectError(r) ==
    /\ r.pc = "Fatal"
    /\ r.result = None
    /\ Unwrap(r.error).source = None
    /\ Unwrap(r.error).parts[1] \in
          {"Failed to parse ", "No valid JSON object found in Anthropic response"}

C14_NoSpanIsFatalNotCrash ==
    /\ (call.pc = "Scanned" /\ NoBalancedSpan(CleanContent)) =>
          Found = [panic |-> FALSE, span |-> None]
    /\ call.pc = "Scanned" => ~Found.panic
    /\ run.pc # "Panicked"
    /\ (/\ run.pc # "ExtractingSchema"
        /\ ~FromStr(StripFence(Unwrap(run.content))).ok
        /\ NoBalancedSpan(StripFence(Unwrap(run.content)))) =>
          NoObjectError(run)

(* An object opened twice and closed once.                                 *)
C14_Witness ==
    /\ call.pc = "Scanned"
    /\ CleanContent = <<"W", "{", "{", "f", "}">>
    /\ Found.span = None
    /\ NoObjectError(run)

----------------------------------------------------------------------------
(* C15: a text that starts with the fence (with or without the json tag)   *)
(* and ends with a closing fence that does not overlap the opening one     *)
(* loses both, and what is left is trimmed, before it is parsed; any other *)
(* text is passed through unchanged.                                       *)
Fenced(content, open) ==
    /\ Len(content) >= Len(open) + Len(Fence)
    /\ SubSeq(content, 1, Len(open)) = open
    /\ SubSeq(content, Len(content) - 2, Len(content)) = Fence

Inside(content, open) == SubSeq(content, Len(open) + 1, Len(content) - Len(Fence))

Unfenced(content) ==
    IF Fenced(content, FenceJson) THEN Trim(Inside(content, FenceJson))
    ELSE IF Fenced(content, Fence) THEN Trim(Inside(content, Fence))
    ELSE content

C15_FenceStripping ==
    /\ call.pc \in {"Stripped", "Scanned"} => CleanContent = Unfenced(call.content)
    /\ (run.pc # "ExtractingSchema" /\ FromStr(Unfenced(Unwrap(run.content))).ok) =>
          /\ run.pc = "Success"
          /\ run.result = Some(FromStr(Unfenced(Unwrap(run.content))).value)

(* A fenced, tagged object on lines of its own is parsed directly.         *)
C15_Witness ==
    /\ call.pc = "Stripped"
    /\ call.content = FenceJson \o <<"\n">> \o ObjF \o <<"\n">> \o Fence
    /\ CleanContent = ObjF
    /\ run.pc = "Success"

----------------------------------------------------------------------------
(* C16 as stated: the direct parse of the fence-stripped text decides      *)
(* first; a schema error is raised exactly when the direct parse and the   *)
(* parse of the extracted span have both failed, and it carries both the   *)
(* direct parse's error and the extraction stage's, on either client.      *)
(* The run went through ExtractingSchema and ended.                        *)
Extracted ==
    /\ run.pc \in {"Success", "Fatal"}
    /\ run.content # None
    /\ AttemptsRead >= 1
    /\ LastSignal.signal \in {"Stop", "Absent", "Unread"}

SchemaError(r) ==
    /\ r.pc = "Fatal"
    /\ Unwrap(r.error).parts[1] \in
          {"Failed to parse extracted JSON from OpenAI response: ",
           "Failed to parse extracted JSON from Anthropic response"}

Carries(error, e) ==
    \/ error.source = Some(JsonError(e))
    \/ \E i \in 1..Len(error.parts) :
          /\ i + 2 <= Len(error.parts)
          /\ SubSeq(error.parts, i, i + 2) = ShowJsonErr(e)

C16_AsStated ==
    LET clean == StripFence(Unwrap(run.content))
        direct == FromStr(clean)
        x == IF run.provider = "openai" THEN ExtractOpenAI(clean) ELSE ExtractAnthropic(clean)
        second == FromStr(Unwrap(x.span))
    IN  Extracted =>
          /\ direct.ok => run.pc = "Success" /\ run.result = Some(direct.value)
          /\ SchemaError(run) <=> (~direct.ok /\ x.span # None /\ ~second.ok)
          /\ SchemaError(run) =>
                /\ Carries(Unwrap(run.error), direct)
                /\ Carries(Unwrap(run.error), second)

----------------------------------------------------------------------------
(* Vocabulary of the commit message's properties.                          *)
Parsed == Unwrap(call.parsed)

Message == Parsed.value

(* The values the answer holds under a key, in their order.                *)
ValuesOf(key) ==
    LET at == SelectSeq(call.members, LAMBDA m : m[1] = key)
    IN  [i \in 1..Len(at) |-> at[i][2]]

(* The i-th entry of the body section (1-based), read off the claim.       *)
ZipEntry(zh, en, i) ==
    (IF i <= Len(zh) THEN <<zh[i], "\n">> ELSE <<>>)
    \o (IF i <= Len(en) THEN <<en[i]>>
        ELSE IF i <= Len(zh) THEN <<"[Translation needed]">> ELSE <<>>)

RECURSIVE ZipFrom(_, _, _)
ZipFrom(zh, en, i) ==
    IF i > Len(zh) /\ i > Len(en) THEN <<>>
    ELSE (IF i > 1 THEN <<"\n">> ELSE <<>>) \o ZipEntry(zh, en, i) \o ZipFrom(zh, en, i + 1)

(* What the rendering holds between the header and the breaking change.    *)
BodySection ==
    SubSeq(call.rendered, Len(FormatHeader(Message)) + 1,
           Len(call.rendered) - Len(FormatBreaking(Message)))

(* C17: with body and body_en both given, the body section is the          *)
(* asymmetric zip: for each index up to the longer of the two, body[i] and *)
(* a newline if present, then body_en[i] if present, else the placeholder  *)
(* when body[i] is present; entries are separated by one newline.  So      *)
(* [a, b] with [x] gives a, x, b, [Translation needed], and an English     *)
(* line without a Chinese one stands alone.                                *)
C17_AsymmetricZip ==
    (call.pc = "Rendered" /\ Message.body # None /\ Message.body_en # None) =>
        LET zh == Unwrap(Message.body)
            en == Unwrap(Message.body_en)
        IN  /\ (zh # <<>> \/ en # <<>>) => BodySection = <<"\n\n">> \o ZipFrom(zh, en, 1)
            /\ (zh = <<"a", "b">> /\ en = <<"x">>) =>
                  BodySection = <<"\n\n", "a", "\n", "x", "\n", "b", "\n",
                                  "[Translation needed]">>
            /\ (zh = <<"a">> /\ en = <<"x", "y">>) =>
                  BodySection = <<"\n\n", "a", "\n", "x", "\n", "y">>

C17_Witness ==
    /\ call.pc = "Rendered"
    /\ Message.body = Some(<<"a", "b">>)
    /\ Message.body_en = Some(<<"x">>)
    /\ Message.breaking_change # None
    /\ BodySection = <<"\n\n", "a", "\n", "x", "\n", "b", "\n", "[Translation needed]">>

----------------------------------------------------------------------------
(* C18 as stated: for every message whose body holds at least one line,    *)
(* the rendering has a blank line after the header and then every body     *)
(* line, in order; each body line without an English counterpart, body_en  *)
(* being shorter or absent, is followed by the placeholder.                *)
C18_AsStated ==
    (call.pc = "Rendered" /\ Message.body # None /\ Unwrap(Message.body) # <<>>) =>
        LET zh == Unwrap(Message.body)
            en == IF Message.body_en = None THEN <<>> ELSE Unwrap(Message.body_en)
            section == BodySection
        IN  /\ section # <<>>
            /\ section[1] = "\n\n"
            /\ \E pos \in [1..Len(zh) -> 2..Len(section)] :
                  /\ \A i \in 1..Len(zh) : section[pos[i]] = zh[i]
                  /\ \A i, j \in 1..Len(zh) : i < j => pos[i] < pos[j]
                  /\ \A i \in 1..Len(zh) :
                        i > Len(en) =>
                            /\ pos[i] + 2 <= Len(section)
                            /\ section[pos[i] + 1] = "\n"
                            /\ section[pos[i] + 2] = "[Translation needed]"

----------------------------------------------------------------------------
(* C19 as stated: breaking_change given as true becomes the string         *)
(* "Breaking change"; given as false or null, or not given at all, it      *)
(* becomes none; given as a string it becomes that string; and the         *)
(* deserialization never fails because of it.                              *)
FailedOn(names) ==
    /\ call.pc = "SchemaError"
    /\ Parsed.error.parts[Len(Parsed.error.parts)] \in names

C19_AsStated ==
    LET given == ValuesOf("breaking_change")
        v == given[1]
    IN  (call.pc # "Received" /\ (given = <<>> \/ v.t \in {"bool", "null", "string"})) =>
          /\ ~FailedOn({"breaking_change", "BreakingChange"})
          /\ Parsed.ok =>
                Message.breaking_change =
                    IF given = <<>> \/ v.t = "null" THEN None
                    ELSE IF v.t = "bool" THEN (IF v.v THEN Some("Breaking change") ELSE None)
                    ELSE Some(v.v)

----------------------------------------------------------------------------
(* C20: body given as a single string becomes the one-element sequence     *)
(* holding it, given as an array of strings that sequence in the same      *)
(* order, given as null or not given at all no body; any other shape makes *)
(* the deserialization fail with an error value.                           *)
C20_BodyNormalized ==
    LET given == ValuesOf("body")
        v == given[1]
        stringArray == v.t = "array" /\ \A i \in 1..Len(v.v) : v.v[i].t = "string"
    IN  (call.pc # "Received" /\ Len(given) <= 1) =>
          /\ (given = <<>> \/ v.t \in {"null", "string"} \/ stringArray) =>
                /\ ~FailedOn({"body", "Body"})
                /\ Parsed.ok =>
                      IF given = <<>> \/ v.t = "null" THEN Message.body = None
                      ELSE IF v.t = "string" THEN Message.body = Some(<<v.v>>)
                      ELSE /\ Message.body # None
                           /\ Len(Unwrap(Message.body)) = Len(v.v)
                           /\ \A i \in 1..Len(v.v) : Unwrap(Message.body)[i] = v.v[i].v
          /\ (given # <<>> /\ v.t \notin {"null", "string"} /\ ~stringArray) =>
                /\ call.pc = "SchemaError"
                /\ ~Parsed.ok

(* A body given as one string, and the message rendered with it.           *)
C20_Witness ==
    /\ call.pc = "Rendered"
    /\ ValuesOf("body") = <<JStr("a")>>
    /\ Message.body = Some(<<"a">>)
    /\ Message.body_en = Some(<<"x", "y">>)

----------------------------------------------------------------------------
(* C21 as stated: the diff included in the prompt is a prefix of the       *)
(* input diff; a diff of no more characters than the budget is included    *)
(* unchanged, and a longer one is cut to a prefix of no more characters    *)
(* than the budget that ends on a character boundary.                      *)
Truncated == call.pc = "Truncated"

Included == Unwrap(call.included).text

IsPrefix(p, t) == Len(p) <= Len(t) /\ SubSeq(t, 1, Len(p)) = p

(* the number of characters of a text                                      *)
CharCount(t) == Len(t)

C21_AsStated ==
    Truncated =>
        /\ ~Unwrap(call.included).panic
        /\ IsPrefix(Included, call.diff)
        /\ CharCount(call.diff) <= call.max_chars => Included = call.diff
        /\ CharCount(call.diff) > call.max_chars =>
              CharCount(Included) <= call.max_chars

----------------------------------------------------------------------------
(* C22: on the Anthropic-style path commit-message generation sends        *)
(* exactly one request, with the initial token budget; an envelope that    *)
(* yields a first content block takes the run straight to ExtractingSchema *)
(* with that block's text, whatever else the envelope holds (a stop_reason *)
(* of max_tokens too): no retry, no budget growth.                         *)
IsAnthropicCommit == run.provider = "anthropic" /\ run.kind = "commit"

HasStopReason(body, reason) ==
    "stop_reason" \in DOMAIN body /\ body.stop_reason = reason

C22_SingleSendInv ==
    IsAnthropicCommit =>
        /\ Len(run.sends) <= 1
        /\ run.pc \notin {"Building", "Sending"} => Len(run.sends) = 1
        /\ \A i \in 1..Len(run.sends) : run.sends[i].max_tokens = run.initial_max_tokens
        /\ run.max_tokens = run.initial_max_tokens
        /\ run.attempt = 0
        /\ AttemptsRead <= 1

C22_StraightToSchema ==
    (/\ IsAnthropicCommit
     /\ run.pc = "Interpreting"
     /\ Unwrap(run.response_text).form = "blocks"
     /\ Unwrap(run.response_text).content # <<>>) =>
        /\ run'.pc = "ExtractingSchema"
        /\ run'.content = Some(Unwrap(run.response_text).content[1])
        /\ run'.sends = run.sends
        /\ run'.max_tokens = run.max_tokens

C22_AnthropicAlwaysStop == []C22_SingleSendInv /\ [][C22_StraightToSchema]_vars

(* An answer cut short, its envelope saying so, went to the schema         *)
(* extraction and failed there after the one send.                         *)
C22_Witness ==
    /\ IsAnthropicCommit
    /\ run.pc = "Fatal"
    /\ run.response_text # None
    /\ HasStopReason(Unwrap(run.response_text), "max_tokens")
    /\ run.content = Some(<<"{", "f">>)
    /\ Len(run.sends) = 1

----------------------------------------------------------------------------
(* C23 as stated: in changelog generation, whose one attempt is the last   *)
(* allowed one, an answer whose completion signal is Length ends the run   *)
(* in Fatal with a truncation error, never in Success, and an answer whose *)
(* signal is ContentFiltered ends it in Fatal.                             *)
(* An OpenAI-style changelog run that ended after its envelope yielded a   *)
(* content string.                                                         *)
ChangelogAnswered ==
    /\ run.provider = "openai"
    /\ run.kind = "changelog"
    /\ Terminal
    /\ run.response_text # None
    /\ Unwrap(run.response_text).form = "json"
    /\ Unwrap(run.response_text).choices # <<>>
    /\ Unwrap(run.response_text).choices[1].content # None

EnvelopeSignal == CompletionSignal(Unwrap(run.response_text).choices[1].finish_reason)

C23_AsStated ==
    ChangelogAnswered =>
        /\ EnvelopeSignal = "Length" =>
              /\ run.pc = "Fatal"
              /\ run.error \in TruncationErrors
        /\ EnvelopeSignal = "ContentFiltered" => run.pc = "Fatal"

----------------------------------------------------------------------------
(* C24 as stated: in every state of the brace scan, of every copy of the   *)
(* scanner and on every text, the depth counter is not negative (a "}" met *)
(* at depth 0 leaves it at 0).                                             *)
InScan == call.pc \in {"Scanning", "Scanned"}

C24_AsStated == InScan => call.scan.depth >= 0

----------------------------------------------------------------------------
(* C25: on the OpenAI-style commit path the first request carries the base *)
(* system message and the user prompt only; every later request follows an *)
(* attempt that read Length and carries the corrective system instruction  *)
(* between the base system message and the user prompt; the user prompt is *)
(* the same on every request.                                              *)
Corrective == Msg("system", "previous-answer-truncated")

Carried(i) == run.sends[i].messages

UserPrompt(i) == Carried(i)[Len(Carried(i))]

C25_CorrectiveAfterTruncation ==
    IsOpenAICommit =>
        \A i \in 1..Len(run.sends) :
            /\ Carried(i)[1] = Msg("system", "commit-system-message")
            /\ UserPrompt(i).role = "user"
            /\ UserPrompt(i) = UserPrompt(1)
            /\ \A k \in 1..Len(Carried(i)) : Carried(i)[k].role = "user" => k = Len(Carried(i))
            /\ i = 1 => /\ Len(Carried(i)) = 2
                        /\ \A k \in 1..Len(Carried(i)) : Carried(i)[k] # Corrective
            /\ i > 1 => /\ run.signals[i - 1].signal = "Length"
                        /\ Len(Carried(i)) = 3
                        /\ Carried(i)[2] = Corrective

(* A third request, sent after two truncated attempts.                     *)
C25_Witness ==
    /\ IsOpenAICommit
    /\ Len(run.sends) = 3
    /\ run.signals[2].signal = "Length"
    /\ Carried(3)[2] = Corrective
    /\ Carried(1) = <<Msg("system", "commit-system-message"), Msg("user", "prompt")>>

----------------------------------------------------------------------------
(* C26 as stated: a response decoded as a stream is taken as complete      *)
(* (completion signal Stop) when the [DONE] marker was received: every     *)
(* streamed response the orchestrator accepts as Stop has a "data: [DONE]" *)
(* line.                                                                   *)
(* The attempt at hand read a stream and took its signal for Stop.         *)
StreamAcceptedAsStop ==
    /\ IsOpenAICommit
    /\ run.response_text # None
    /\ Unwrap(run.response_text).form = "sse"
    /\ run.signal = "Stop"

HasDoneLine(body) == \E i \in 1..Len(body.lines) : body.lines[i].kind = "done"

C26_AsStated == StreamAcceptedAsStop => HasDoneLine(Unwrap(run.response_text))

----------------------------------------------------------------------------
(* C27: a run of OpenAI-style commit-message generation whose HTTP calls   *)
(* all return ends, in exactly one of Success and Fatal, after at least 1  *)
(* and at most 4 requests; the loop never runs out of attempts without a   *)
(* verdict, so the error that follows the loop is never returned.          *)
C27_OneVerdictInv ==
    IsOpenAICommit =>
        /\ run.pc \in {"Building", "Sending", "AwaitingResponse", "ReadingBody",
                        "Interpreting", "ExtractingSchema", "Success", "Fatal"}
        /\ Len(run.sends) <= 4
        /\ run.attempt < 4
        /\ run.error # Some(AfterLoopError)
        /\ run.pc = "Success" <=> run.result # None
        /\ run.pc = "Fatal" <=> run.error # None
        /\ Terminal => Len(run.sends) >= 1

C27_Terminates == (IsOpenAICommit ~> Terminal) /\ []C27_OneVerdictInv

(* Three truncated attempts and a complete answer to the fourth request.   *)
C27_Witness ==
    /\ IsOpenAICommit
    /\ run.pc = "Success"
    /\ Len(run.sends) = 4
    /\ AttemptsRead = 4
    /\ run.signals[3].signal = "Length"

----------------------------------------------------------------------------
(* C28 as stated: within a run of OpenAI-style commit-message generation   *)
(* the token budget never shrinks: whatever the configured initial budget  *)
(* (values above 4000 too) and whatever the responses, each request's      *)
(* budget is at least the budget of the request before it.                 *)
BudgetOf(i) == run.sends[i].max_tokens

C28_AsStated ==
    IsOpenAICommit =>
        \A i \in 2..Len(run.sends) : U32Le(BudgetOf(i - 1), BudgetOf(i))

----------------------------------------------------------------------------
(* C29 as stated: the brace extractor of the OpenAI-style path and that of *)
(* the Anthropic-style path are equivalent: on every text (one with a      *)
(* stray "}" before the first "{" too) both return the same span or both   *)
(* find no object.                                                         *)
(* What the extractor of the other client makes of the same text.          *)
SiblingFound ==
    IF call.provider = "openai"
    THEN ExtractAnthropic(call.clean_content)
    ELSE ExtractOpenAI(call.clean_content)

C29_AsStated == call.pc = "Scanned" => Unwrap(call.found) = SiblingFound

----------------------------------------------------------------------------
(* C30: in the commit command `git commit` is executed at most once, and   *)
(* only after the generation returned Success and the action chosen is     *)
(* Accept (always so with --auto) or Edit; it is never executed when the   *)
(* working tree is clean, the diff is empty, the diff preview is declined, *)
(* the generation ends in Fatal, or the action is Regenerate or Cancel;    *)
(* in the first three cases no request is sent to the provider.            *)
Committed == Len(call.commits) >= 1

InCommand == call.pc \in {"CheckingStatus", "Staging", "Diffing", "Previewing", "Preparing",
                           "Generating", "Confirming", "Acting", "Returned"}

C30_CommitOnlyWhenAccepted ==
    InCommand =>
        /\ Len(call.commits) <= 1
        /\ Committed =>
              /\ run.pc = "Success"
              /\ call.action \in {Some("Accept"), Some("Edit")}
              /\ call.pc = "Returned"
        /\ (call.auto /\ call.action # None) => call.action = Some("Accept")
        /\ (\/ call.is_clean = Some(TRUE)
            \/ call.diff_empty = Some(TRUE)
            \/ call.preview = Some(FALSE)) =>
              /\ ~Committed
              /\ run.pc = "Unused"
              /\ Len(run.sends) = 0
              /\ call.exit = Some("ok")
        /\ run.pc = "Fatal" => ~Committed
        /\ call.action \in {Some("Regenerate"), Some("Cancel")} => ~Committed
        /\ (call.pc = "Returned" /\ call.action \in {Some("Accept"), Some("Edit")}) =>
              Committed \/ call.exit = Some("err")
        /\ (~Committed /\ call.action # None) => call.exit # Some("ok") \/
              call.action \in {Some("Regenerate"), Some("Cancel")}

(* An edited message committed after the preview was accepted and the      *)
(* generation needed a retry.                                              *)
C30_Witness ==
    /\ InCommand
    /\ call.commits = << <<"edited_message">> >>
    /\ call.preview = Some(TRUE)
    /\ ~call.auto
    /\ Len(run.sends) = 2
    /\ call.exit = Some("ok")

=============================================================================
